---- MODULE Spec2Model ----
(***************************************************************************)
(* Datapool server: the queue routes (routes/queue.js, kept as             *)
(* src/unnamed/part_000 lines 49-357) and the counter routes               *)
(* (routes/counter.js, kept as src/unnamed/part_001 lines 1-168).          *)
(*                                                                         *)
(* Each route file owns one sqlite3.Database connection.  Every SQL        *)
(* statement of every request goes through that connection's call queue:   *)
(*   - a statement issued outside db.serialize() starts at once unless an  *)
(*     exclusive statement is running, and then runs in parallel with the  *)
(*     other running statements;                                           *)
(*   - a statement issued inside db.serialize() while anything is running  *)
(*     is queued as exclusive: it starts when nothing else runs, and       *)
(*     nothing starts while it runs.                                       *)
(* A statement takes effect in the thread pool (Exec) and its JavaScript   *)
(* callback runs later on the main thread (one action per callback),       *)
(* before the statement is counted as finished.  The continuation of an    *)
(* `await dbTableExists(...)` is a microtask: depending on the sqlite3      *)
(* release it runs right after the callback, before the statement is       *)
(* counted as finished (`early`), or after that and after the connection   *)
(* has started what was waiting.  Both are modelled.                       *)
(***************************************************************************)
EXTENDS Integers, Sequences, FiniteSets, TLC

\* ---------------------------------------------------------------- bounds
MaxReq == 3        \* requests received per run
MaxBatch == 2      \* longest POST body (array of items)
MaxLimit == 2      \* largest ?limit= value

\* --------------------------------------------------------------- helpers
Min(a, b) == IF a < b THEN a ELSE b

Max(a, b) == IF a > b THEN a ELSE b

Range(s) == {s[i] : i \in 1..Len(s)}

IsPrefix(s, t) == Len(s) <= Len(t) /\ \A i \in 1..Len(s) : s[i] = t[i]

RECURSIVE Flatten(_)
Flatten(ss) == IF ss = <<>> THEN <<>> ELSE Head(ss) \o Flatten(Tail(ss))

\* ------------------------------------------------------------ JSON items
\* The JSON values a client sends as queue items.
JsonVals == {"a", "b"}

\* JSON.stringify of an item: the text stored in the `item` column.
JSONstringify(v) == IF v = "a" THEN "\"a\"" ELSE "\"b\""

\* JSON.parse of a stored `item` text.
JSONparse(t) == IF t = "\"a\"" THEN "a" ELSE IF t = "\"b\"" THEN "b" ELSE "SyntaxError"

\* The queue names of the requests (alphanumeric, so validation passes).
Names == {"q"}

\* The POST bodies: non-empty arrays (an empty one is rejected with 400).
Bodies == {<<"a">>} \cup (IF MaxBatch >= 2 THEN {<<"a", "b">>} ELSE {})
            \cup (IF MaxBatch >= 3 THEN {<<"b", "a", "b">>} ELSE {})

\* The ?limit= values: 0 stands for an omitted limit.
Limits == 0..MaxLimit

VARIABLES
    reqs,      \* queue requests received so far, in order of arrival
    qdb,       \* the queue connection's scheduler: [queue, locked, run]
    tables,    \* queues.sqlite: name -> [exists, rows]
    inTxn,     \* queues.sqlite: an explicit transaction is open
    hist,      \* history: per name, what was inserted / deleted since the table was
               \* created, and the highest position assigned since then
    creqs,     \* counter requests received so far, in order of arrival
    cdb,       \* the counter connection's scheduler: [queue, locked, run]
    counters,  \* counters.sqlite: name -> [present, value]
    cTxn,      \* counters.sqlite: an explicit transaction is open
    clog,      \* history: per counter, the requests whose write took effect, in order
    mreqs,     \* map requests received so far, in order of arrival
    mdb,       \* the map connection's scheduler: [queue, locked, run]
    maps,      \* maps.sqlite: key -> [present, value]
    mlog,       \* history: per key, the requests whose write took effect, in order
    preqs,     \* person requests received so far, in order of arrival
    pdb,       \* the person connection's scheduler
    persons,   \* persons.sqlite: the rows of table persons
    pTxn       \* persons.sqlite has a transaction open

qvars == <<reqs, qdb, tables, inTxn, hist>>
cvars == <<creqs, cdb, counters, cTxn, clog>>
mvars == <<mreqs, mdb, maps, mlog>>
pvars == <<preqs, pdb, persons, pTxn>>
vars == <<qvars, cvars, mvars, pvars>>

\* ------------------------------------------------- node-sqlite3 scheduler
\* A statement handed to the connection by request rid.
Call(rid, stmt) ==
    [rid |-> rid, stmt |-> stmt, excl |-> FALSE, done |-> FALSE,
     ok |-> TRUE, rows |-> <<>>, n |-> 0]

\* Database::Schedule: queue the call, or start it at once.
Schedule(d, c, serialize) ==
    IF (d.locked \/ serialize) /\ d.run # {}
    THEN [d EXCEPT !.queue = Append(@, [c EXCEPT !.excl = serialize])]
    ELSE [d EXCEPT !.locked = FALSE, !.run = @ \cup {c}]

\* Database::Process: start queued calls while that is allowed.
RECURSIVE Process(_)
Process(d) ==
    IF (~d.locked \/ d.run = {}) /\ d.queue # <<>>
    THEN LET c == Head(d.queue) IN
         IF c.excl /\ d.run # {}
         THEN d
         ELSE LET d2 == [queue |-> Tail(d.queue), locked |-> c.excl,
                         run |-> d.run \cup {c}] IN
              IF c.excl THEN d2 ELSE Process(d2)
    ELSE d

\* Mutant: a finished call is dropped without starting what waited for it.
FinishNoProcess(d, c) == [d EXCEPT !.run = @ \ {c}]

\* STATEMENT_END: the call is finished; start what was waiting for it.
Finish(d, c) == Process([d EXCEPT !.run = @ \ {c}])

RECURSIVE ScheduleAll(_, _, _)
ScheduleAll(d, cs, serialize) ==
    IF cs = <<>> THEN d
    ELSE ScheduleAll(Schedule(d, Head(cs), serialize), Tail(cs), serialize)

\* The statements cs issued by the continuation of the await that statement c
\* resolved: before c is counted as finished (early) or after.
Resume(d, c, cs, serialize, early) ==
    IF early THEN Finish(ScheduleAll(d, cs, serialize), c)
    ELSE ScheduleAll(Finish(d, c), cs, serialize)


\* ------------------------------------------------------- queues.sqlite SQL
\* SQLite finds a table by its name without regard to letter case, while
\* sqlite_master keeps the name as CREATE TABLE gave it and `name=?` compares
\* it byte by byte.  Tables are keyed by Fold(name); `name` is the name kept.
CaseNames == {"Q"}

Fold(name) == IF name = "Q" THEN "q" ELSE name

NoTable == [exists |-> FALSE, rows |-> <<>>, name |-> ""]

\* Mutant: the next rowid is the number of rows + 1.
NextPositionByCount(rows) == Len(rows) + 1

\* INTEGER PRIMARY KEY without AUTOINCREMENT: the next rowid is one more than
\* the largest rowid now in the table, 1 for an empty table.
NextPosition(rows) == IF rows = <<>> THEN 1 ELSE rows[Len(rows)].position + 1

\* Mutant: INSERT INTO q (item) VALUES (?) -- only the first value is stored.
InsertRowsFirstOnly(rows, items, rid) ==
    Append(rows, [position |-> NextPosition(rows), item |-> items[1], id |-> <<rid, 1>>])

\* INSERT INTO q (item) VALUES (?), (?), ...: one row per value, in order.
\* `id` is the identity of the item (request, index), kept for the history.
InsertRows(rows, items, rid) ==
    rows \o [i \in 1..Len(items) |->
                [position |-> NextPosition(rows) + i - 1, item |-> items[i], id |-> <<rid, i>>]]

\* Mutant: ORDER BY position DESC.
SelectLimitDesc(rows, limit) ==
    [i \in 1..Min(limit, Len(rows)) |-> rows[Len(rows) + 1 - i]]

\* SELECT ... ORDER BY position ASC LIMIT ?  (rows are kept in position order)
SelectLimit(rows, limit) == SubSeq(rows, 1, Min(limit, Len(rows)))

\* Mutant: the DELETE removes one row fewer than the SELECT returned.
DeleteLimitOneShort(rows, limit) ==
    LET gone == {rows[i].position : i \in 1..(Min(limit, Len(rows)) - 1)} IN
    SelectSeq(rows, LAMBDA row : row.position \notin gone)

\* Mutant: the DELETE removes one row more than the SELECT returned.
DeleteLimitOneMore(rows, limit) ==
    LET gone == {rows[i].position : i \in 1..Min(limit + 1, Len(rows))} IN
    SelectSeq(rows, LAMBDA row : row.position \notin gone)

\* DELETE ... WHERE position IN (SELECT position ... ORDER BY position ASC LIMIT ?)
DeleteLimit(rows, limit) ==
    LET gone == {rows[i].position : i \in 1..Min(limit, Len(rows))} IN
    SelectSeq(rows, LAMBDA row : row.position \notin gone)

\* Mutant: the limit of the request is ignored.
LimitIgnored(r) == 1

\* const limit = req.query.limit || 1
Limit(r) == IF r.limit = 0 THEN 1 ELSE r.limit

\* const items = req.body.map(i => JSON.stringify(i))
BoundItems(r) == [i \in 1..Len(r.body) |-> JSONstringify(r.body[i])]

\* Mutant: CREATE TABLE replaces a table that exists by an empty one.
CreateTableFresh(T, name) == [exists |-> TRUE, rows |-> <<>>, name |-> name]

\* CREATE TABLE IF NOT EXISTS name (position INTEGER PRIMARY KEY, item TEXT ...)
CreateTable(T, name) ==
    IF T.exists THEN T ELSE [exists |-> TRUE, rows |-> <<>>, name |-> name]

\* Mutant: the table and its rows are left in place.
DropTableNoop(T) == T

\* DROP TABLE name: the table goes, and its rows with it.
DropTable(T) == NoTable

\* Tables that an earlier run may have left in queues.sqlite and that no
\* request of this run names.
OtherNames == {"p"}

\* ORDER by name
QueueNameOrder == <<"Q", "p", "q">>

\* Mutant: only the tables that hold rows are listed.
ListTablesNonEmpty(tbls) ==
    SelectSeq(QueueNameOrder, LAMBDA name : /\ Fold(name) \in DOMAIN tbls
                                            /\ tbls[Fold(name)].name = name
                                            /\ tbls[Fold(name)].rows # <<>>)

\* SELECT name FROM sqlite_master WHERE type='table' ORDER by name
ListTables(tbls) ==
    SelectSeq(QueueNameOrder, LAMBDA name : /\ Fold(name) \in DOMAIN tbls
                                            /\ tbls[Fold(name)].name = name
                                            /\ tbls[Fold(name)].exists)

\* The names sqlite_master holds.
TableNames(tbls) == {tbls[k].name : k \in {n \in DOMAIN tbls : tbls[n].exists}}

\* The effect of statement c of request r on table T with transaction flag txn:
\* [ok, rows, n] is what the callback gets, [T, txn] the database afterwards.
\* A statement that names a missing table fails ("no such table").
SqlRun(c, r, T, txn) ==
    LET fail == [ok |-> FALSE, rows |-> <<>>, n |-> 0, T |-> T, txn |-> txn]
        good == [ok |-> TRUE, rows |-> <<>>, n |-> 0, T |-> T, txn |-> txn]
    IN
    CASE c.stmt = "EXISTS" -> [good EXCEPT !.n = IF T.exists /\ T.name = r.name THEN 1 ELSE 0]
      [] c.stmt = "CREATE" -> [good EXCEPT !.T = CreateTable(T, r.name)]
      [] c.stmt = "INSERT" -> IF ~T.exists THEN fail
                              ELSE [good EXCEPT !.T.rows = InsertRows(T.rows, BoundItems(r), c.rid)]
      [] c.stmt = "BEGIN"  -> IF txn THEN fail ELSE [good EXCEPT !.txn = TRUE]
      [] c.stmt = "SELECT" -> IF ~T.exists THEN fail
                              ELSE [good EXCEPT !.rows = SelectLimit(T.rows, Limit(r))]
      [] c.stmt = "DELETE" -> IF ~T.exists THEN fail
                              ELSE [good EXCEPT !.T.rows = DeleteLimit(T.rows, Limit(r))]
      [] c.stmt = "COMMIT" -> IF ~txn THEN fail ELSE [good EXCEPT !.txn = FALSE]
      [] c.stmt = "DROP"   -> IF ~T.exists THEN fail ELSE [good EXCEPT !.T = DropTable(T)]
      [] c.stmt = "COUNT"  -> IF ~T.exists THEN fail ELSE [good EXCEPT !.n = Len(T.rows)]
      [] c.stmt = "PEEK"   -> IF ~T.exists THEN fail
                              ELSE [good EXCEPT !.rows = SelectLimit(T.rows, 1)]
      [] c.stmt = "EXPORT" -> IF ~T.exists THEN fail ELSE [good EXCEPT !.rows = T.rows]
      [] c.stmt = "LIST"   -> good

\* ------------------------------------------------------------- responses
Response(status, kind, items, n) ==
    [status |-> status, kind |-> kind, items |-> items, n |-> n]

\* res.status(201).end() / res.status(200).end()
ResEnd(status) == Response(status, "end", <<>>, 0)

\* res.status(404).json({ queue: queueName, message: 'Queue was not found'})
ResNotFound == Response(404, "notfound", <<>>, 0)

\* next(err): the Express error handler renders the error page with status 500.
ResError == Response(500, "error", <<>>, 0)

\* res.status(400).json({ errors: errors.array() })
ResInvalid == Response(400, "errors", <<>>, 0)

\* rows.map(r => JSON.parse(r.item)); the item's identity goes with its value.
Payload(rows) == [i \in 1..Len(rows) |-> [v |-> JSONparse(rows[i].item), id |-> rows[i].id]]

\* A request as received: the handler's local variables start undefined.
Request(kind, name, body, limit) ==
    [kind |-> kind, name |-> name, body |-> body, limit |-> limit,
     tableExists |-> FALSE, itemsDef |-> FALSE, items |-> <<>>, sent |-> <<>>,
     \* history, read by no handler:
     prior |-> FALSE,     \* served by an earlier run of the server
     issued |-> <<>>,     \* the statements it handed to the connection
     checked |-> [done |-> FALSE, exists |-> FALSE, depth |-> 0],  \* table at its existence check
     seen |-> [at |-> "none", exists |-> FALSE, depth |-> 0, ids |-> <<>>],  \* table at its main statement
     deleted |-> <<>>,    \* identities of the rows its DELETE removed
     left |-> 0,          \* depth right after its DELETE
     cleared |-> FALSE,   \* a DROP took effect between its check, which found the
                          \* table, and its main statement
     failed |-> {},       \* its statements that failed
     existing |-> {},     \* the tables that existed when its list query ran
     earlier |-> {}]      \* enqueue: the enqueues on its queue answered 201 before it arrived

Send(rs, rid, resp) == [rs EXCEPT ![rid].sent = Append(@, resp)]

\* The response the client gets is the first one sent.
Answered(r) == r.sent # <<>>
Answer(r) == r.sent[1]


\* History: the requests among rs that have no response yet.
Unanswered(rs) == {i \in 1..Len(rs) : ~Answered(rs[i])}

\* The request hands statements cs to the connection (history: issued).
Issue(rs, rid, cs) ==
    [rs EXCEPT ![rid].issued = @ \o [i \in 1..Len(cs) |-> cs[i].stmt]]

\* resolve(!!row['count(*)'])
dbTableExistsResult(n) == n # 0

\* ----------------------------------------------------------------- Init
QueueInit ==
    /\ reqs = <<>>
    /\ qdb = [queue |-> <<>>, locked |-> FALSE, run |-> {}]
    /\ tables = [name \in Names |-> NoTable]
    /\ inTxn = FALSE
    /\ hist = [ins |-> [name \in Names |-> <<>>],
               order |-> [name \in Names |-> <<>>],
               top |-> [name \in Names |-> 0],
               dropped |-> {}, committed |-> {}]

\* queues.sqlite is a file: the server may start on what an earlier run left.
\* Here that run served one enqueue, POST /queue/name with `body`.
StoredRequest(name, body) ==
    [Request("post", name, body, 0) EXCEPT
        !.prior = TRUE,
        !.issued = <<"EXISTS", "CREATE", "INSERT">>,
        !.checked = [done |-> TRUE, exists |-> FALSE, depth |-> 0],
        !.seen = [at |-> "INSERT", exists |-> TRUE, depth |-> 0, ids |-> <<>>],
        !.sent = <<ResEnd(201)>>]

QueueInitStored ==
    \/ QueueInit
    \/ \E name \in Names, body \in Bodies :
          LET r == StoredRequest(name, body) IN
          /\ reqs = <<r>>
          /\ qdb = [queue |-> <<>>, locked |-> FALSE, run |-> {}]
          /\ tables = [n \in Names |->
                          IF n = name
                          THEN [exists |-> TRUE, rows |-> InsertRows(<<>>, BoundItems(r), 1),
                                name |-> name]
                          ELSE NoTable]
          /\ inTxn = FALSE
          /\ hist = [ins |-> [n \in Names |->
                                 IF n = name THEN [i \in 1..Len(body) |-> <<1, i>>] ELSE <<>>],
                     order |-> [n \in Names |-> <<>>],
                     top |-> [n \in Names |-> IF n = name THEN Len(body) ELSE 0],
                     dropped |-> {}, committed |-> {name}]

\* queues.sqlite as an earlier run may have left it: the tables of
\* OtherNames exist or not, empty or with one item; no request of this run is
\* from that earlier run.
QueueInitOthers ==
    /\ reqs = <<>>
    /\ qdb = [queue |-> <<>>, locked |-> FALSE, run |-> {}]
    /\ \E stored \in [Names \cup OtherNames ->
                        {NoTable, [exists |-> TRUE, rows |-> <<>>, name |-> ""],
                         [exists |-> TRUE, name |-> "",
                          rows |-> <<[position |-> 1, item |-> JSONstringify("a"), id |-> <<0, 1>>]>>]}] :
          tables = [name \in Names \cup OtherNames |->
                       IF stored[name].exists THEN [stored[name] EXCEPT !.name = name]
                       ELSE NoTable]
    /\ \A name \in Names : tables[name] = NoTable
    /\ inTxn = FALSE
    /\ hist = [ins |-> [name \in Names |-> <<>>],
               order |-> [name \in Names |-> <<>>],
               top |-> [name \in Names |-> 0],
               dropped |-> {},
               committed |-> TableNames(tables)]

\* ------------------------------------------------- requests are received
\* History: the enqueues on queue name among rs that have their 201.
AnsweredEnqueues(rs, name) ==
    {i \in 1..Len(rs) : /\ rs[i].kind = "post" /\ rs[i].name = name
                         /\ rs[i].sent # <<>> /\ rs[i].sent[1] = ResEnd(201)}

\* Every route first awaits dbTableExists(queueName): one db.get, issued
\* outside db.serialize().
Receive(kind, name, body, limit) ==
    LET rid == Len(reqs) + 1
        c == Call(rid, "EXISTS")
    IN
    /\ Cardinality({i \in 1..Len(reqs) : ~reqs[i].prior}) < MaxReq
    /\ reqs' = Issue(Append(reqs, [Request(kind, name, body, limit)
                                      EXCEPT !.earlier = IF kind = "post"
                                                         THEN AnsweredEnqueues(reqs, name)
                                                         ELSE {}]), rid, <<c>>)
    /\ qdb' = Schedule(qdb, c, FALSE)
    /\ UNCHANGED <<tables, inTxn, hist, cvars, mvars, pvars>>

\* POST /queue/:queue with a non-empty array body
QueuePost == \E name \in Names, body \in Bodies : Receive("post", name, body, 0)

\* GET /queue/:queue[?limit=n]
QueueGet == \E name \in Names, limit \in Limits : Receive("get", name, <<>>, limit)

\* DELETE /queue/:queue
QueueDelete == \E name \in Names : Receive("delete", name, <<>>, 0)

\* GET /queue/:queue/depth
QueueDepth == \E name \in Names : Receive("depth", name, <<>>, 0)

\* GET /queue/:queue/peek
QueuePeek == \E name \in Names : Receive("peek", name, <<>>, 0)

\* GET /queue/:queue/export
QueueExport == \E name \in Names : Receive("export", name, <<>>, 0)

\* A queue route with a name that differs from a name of Names in letter
\* case only: isAlphanumeric() accepts it like any other.
QueueCase ==
    \E kind \in {"post", "get", "delete", "depth"}, name \in CaseNames,
       body \in Bodies \cup {<<>>}, limit \in Limits :
        /\ (kind = "post") = (body # <<>>)
        /\ kind # "get" => limit = 0
        /\ Receive(kind, name, body, limit)

\* ---- validation (express-validator chains in front of every handler)
\* A name that is not alphanumeric, as a client may send it.
BadNames == {"q-"}

\* param(...).isAlphanumeric()
IsAlphanumeric(name) == name \notin BadNames

\* The JSON bodies a client may POST to a queue: arrays, empty or not, and a
\* value that is no array (items then has no meaning).
RawBodies == {[isArray |-> TRUE, items |-> b] : b \in Bodies \cup {<<>>}}
                \cup {[isArray |-> FALSE, items |-> <<>>]}

\* body().isArray().notEmpty()
ValidBody(raw) == raw.isArray /\ raw.items # <<>>

\* The ?limit= values a client may send: 0 stands for an omitted limit, so
\* the values below 1 are represented by -1.
RawLimits == -1..MaxLimit

\* query('limit').optional().isInt({ min: 1 })
ValidLimit(limit) == limit = 0 \/ limit >= 1

QueueRoutes == {"post", "get", "delete", "depth", "peek", "export"}

\* validationResult(req) of a queue route
QueueValid(kind, name, raw, limit) ==
    /\ IsAlphanumeric(name)
    /\ kind = "post" => ValidBody(raw)
    /\ kind = "get" => ValidLimit(limit)

\* Mutant: the enqueue handler creates the table before it looks at the
\* validation result.
QueueRejectAfterCreate ==
    \E kind \in QueueRoutes, name \in Names \cup BadNames, raw \in RawBodies, limit \in RawLimits :
        /\ ~QueueValid(kind, name, raw, limit)
        /\ kind # "post" => raw.items = <<>> /\ raw.isArray
        /\ kind # "get" => limit = 0
        /\ Cardinality({i \in 1..Len(reqs) : ~reqs[i].prior}) < MaxReq
        /\ reqs' = Append(reqs, [Request(kind, name, raw.items, limit) EXCEPT !.sent = <<ResInvalid>>])
        /\ tables' = IF kind = "post" /\ name \in Names
                     THEN [tables EXCEPT ![name] = CreateTable(@, name)] ELSE tables
        /\ UNCHANGED <<qdb, inTxn, hist, cvars, mvars, pvars>>

\* if (!errors.isEmpty()) return res.status(400).json({ errors: errors.array() })
\* -- the first lines of every queue handler, before any statement.
QueueReject ==
    \E kind \in QueueRoutes, name \in Names \cup BadNames, raw \in RawBodies, limit \in RawLimits :
        /\ ~QueueValid(kind, name, raw, limit)
        /\ kind # "post" => raw.items = <<>> /\ raw.isArray
        /\ kind # "get" => limit = 0
        /\ Cardinality({i \in 1..Len(reqs) : ~reqs[i].prior}) < MaxReq
        /\ reqs' = Append(reqs, [Request(kind, name, raw.items, limit) EXCEPT !.sent = <<ResInvalid>>])
        /\ UNCHANGED <<qdb, tables, inTxn, hist, cvars, mvars, pvars>>

\* GET /queue: one db.all, no existence check; the request names no queue.
QueueList ==
    LET rid == Len(reqs) + 1
        c == Call(rid, "LIST")
    IN
    /\ Cardinality({i \in 1..Len(reqs) : ~reqs[i].prior}) < MaxReq
    /\ reqs' = Issue(Append(reqs, Request("list", "", <<>>, 0)), rid, <<c>>)
    /\ qdb' = Schedule(qdb, c, FALSE)
    /\ UNCHANGED <<tables, inTxn, hist, cvars, mvars, pvars>>

\* History helpers: the identities of rows, and the rows of `before` missing in `after`.
Ids(rows) == [i \in 1..Len(rows) |-> rows[i].id]

Removed(before, after) ==
    SelectSeq(before, LAMBDA row : row.position \notin {after[i].position : i \in 1..Len(after)})

\* History: when request rid's DROP takes effect, the requests on the same
\* table that are between their existence check and their main statement.
Overtaken(rs, rid, dropped) ==
    IF ~dropped THEN rs
    ELSE [i \in 1..Len(rs) |->
             IF /\ i # rid /\ Fold(rs[i].name) = Fold(rs[rid].name)
                /\ rs[i].checked.done /\ rs[i].checked.exists /\ rs[i].seen.at = "none"
             THEN [rs[i] EXCEPT !.cleared = TRUE]
             ELSE rs[i]]

\* ------------------------------------------- a statement takes effect
\* The thread pool runs a started statement against queues.sqlite.
Exec ==
    \E c \in qdb.run :
        /\ ~c.done
        /\ UNCHANGED <<cvars, mvars, pvars>>
        /\ LET r == reqs[c.rid]
               key == Fold(r.name)
               T == IF c.stmt = "LIST" THEN NoTable ELSE tables[key]
               res == SqlRun(c, r, T, inTxn)
               cd == [c EXCEPT !.done = TRUE, !.ok = res.ok, !.n = res.n,
                               !.rows = IF c.stmt = "LIST" THEN ListTables(tables) ELSE res.rows]
               sees == [at |-> c.stmt, exists |-> T.exists, depth |-> Len(T.rows),
                        ids |-> Ids(T.rows)]
           IN
           /\ qdb' = [qdb EXCEPT !.run = (@ \ {c}) \cup {cd}]
           /\ tables' = IF c.stmt = "LIST" THEN tables ELSE [tables EXCEPT ![key] = res.T]
           /\ inTxn' = res.txn
           /\ reqs' = Overtaken([reqs EXCEPT
                  ![c.rid].existing = IF c.stmt = "LIST"
                                      THEN TableNames(tables)
                                      ELSE @,
                  ![c.rid].checked = IF c.stmt = "EXISTS"
                                     THEN [done |-> TRUE, exists |-> T.exists /\ T.name = r.name,
                                           depth |-> Len(T.rows)]
                                     ELSE @,
                  ![c.rid].left = IF c.stmt = "DELETE" /\ res.ok THEN Len(res.T.rows) ELSE @,
                  ![c.rid].failed = IF res.ok THEN @ ELSE @ \cup {c.stmt},
                  ![c.rid].seen = IF c.stmt \in {"INSERT", "SELECT", "COUNT", "PEEK", "EXPORT", "DROP"}
                                  THEN sees ELSE @,
                  ![c.rid].deleted = IF c.stmt = "DELETE" /\ res.ok
                                     THEN Ids(Removed(T.rows, res.T.rows))
                                     ELSE @],
                  c.rid, c.stmt = "DROP" /\ res.ok)
           /\ hist' =
                LET h == IF c.stmt = "INSERT" /\ res.ok
                         THEN [hist EXCEPT
                                  !.ins[key] = @ \o [i \in 1..Len(r.body) |-> <<c.rid, i>>],
                                  !.top[key] = Max(@, res.T.rows[Len(res.T.rows)].position)]
                         ELSE IF c.stmt = "DELETE" /\ res.ok
                         THEN [hist EXCEPT !.order[key] = Append(@, c.rid)]
                         ELSE IF c.stmt = "DROP" /\ res.ok
                         THEN [hist EXCEPT
                                  !.ins[key] = <<>>, !.order[key] = <<>>, !.top[key] = 0,
                                  !.dropped = @ \cup {T.rows[i].id : i \in 1..Len(T.rows)}]
                         ELSE hist
                IN
                \* outside a transaction every statement commits what it did
                [h EXCEPT !.committed = IF res.txn THEN @ ELSE TableNames(tables')]

\* A finished statement of the given kind, issued by a request of the given route.
Done(stmt, kind) == {c \in qdb.run : c.done /\ c.stmt = stmt /\ reqs[c.rid].kind = kind}


\* ------------------------------------ continuations after dbTableExists
\* Mutant: the table is never created.
PostContinueNoCreate ==
    \E c \in Done("EXISTS", "post"), early \in BOOLEAN :
        LET tableExists == dbTableExistsResult(c.n)
            cs == <<Call(c.rid, "INSERT")>>
        IN
        /\ reqs' = Issue([reqs EXCEPT ![c.rid].tableExists = tableExists], c.rid, cs)
        /\ qdb' = Resume(qdb, c, cs, TRUE, early)
        /\ UNCHANGED <<tables, inTxn, hist, cvars, mvars, pvars>>

\* router.post('/:queue'): db.serialize(() => { [CREATE TABLE IF NOT EXISTS]; INSERT })
PostContinue ==
    \E c \in Done("EXISTS", "post"), early \in BOOLEAN :
        LET tableExists == dbTableExistsResult(c.n)
            cs == (IF ~tableExists THEN <<Call(c.rid, "CREATE")>> ELSE <<>>)
                    \o <<Call(c.rid, "INSERT")>>
        IN
        /\ reqs' = Issue([reqs EXCEPT ![c.rid].tableExists = tableExists], c.rid, cs)
        /\ qdb' = Resume(qdb, c, cs, TRUE, early)
        /\ UNCHANGED <<tables, inTxn, hist, cvars, mvars, pvars>>

\* Mutant: the four statements are issued without db.serialize().
GetContinueUnserialized ==
    \E c \in Done("EXISTS", "get"), early \in BOOLEAN :
        LET tableExists == dbTableExistsResult(c.n)
            cs == <<Call(c.rid, "BEGIN"), Call(c.rid, "SELECT"),
                    Call(c.rid, "DELETE"), Call(c.rid, "COMMIT")>>
        IN
        /\ UNCHANGED <<tables, inTxn, hist, cvars, mvars, pvars>>
        /\ IF ~tableExists
           THEN /\ reqs' = Send(reqs, c.rid, ResNotFound)
                /\ qdb' = Finish(qdb, c)
           ELSE /\ reqs' = Issue([reqs EXCEPT ![c.rid].tableExists = TRUE], c.rid, cs)
                /\ qdb' = Resume(qdb, c, cs, FALSE, early)

\* router.get('/:queue'): 404, or db.serialize(() => { BEGIN; SELECT; DELETE; COMMIT })
GetContinue ==
    \E c \in Done("EXISTS", "get"), early \in BOOLEAN :
        LET tableExists == dbTableExistsResult(c.n)
            cs == <<Call(c.rid, "BEGIN"), Call(c.rid, "SELECT"),
                    Call(c.rid, "DELETE"), Call(c.rid, "COMMIT")>>
        IN
        /\ UNCHANGED <<tables, inTxn, hist, cvars, mvars, pvars>>
        /\ IF ~tableExists
           THEN /\ reqs' = Send(reqs, c.rid, ResNotFound)
                /\ qdb' = Finish(qdb, c)
           ELSE /\ reqs' = Issue([reqs EXCEPT ![c.rid].tableExists = TRUE], c.rid, cs)
                /\ qdb' = Resume(qdb, c, cs, TRUE, early)

\* Mutant: `absent` is sent without `return`, so the statement is issued too.
ReadContinueNoReturn(c, stmt, absent, early) ==
    LET tableExists == dbTableExistsResult(c.n)
        cs == <<Call(c.rid, stmt)>>
        rs == IF ~tableExists THEN Send(reqs, c.rid, absent) ELSE reqs
    IN
    /\ UNCHANGED <<tables, inTxn, hist, cvars, mvars, pvars>>
    /\ reqs' = Issue([rs EXCEPT ![c.rid].tableExists = tableExists], c.rid, cs)
    /\ qdb' = Resume(qdb, c, cs, FALSE, early)

\* One statement outside db.serialize() when the table exists, else `absent`.
ReadContinue(c, stmt, absent, early) ==
    LET tableExists == dbTableExistsResult(c.n)
        cs == <<Call(c.rid, stmt)>>
    IN
    /\ UNCHANGED <<tables, inTxn, hist, cvars, mvars, pvars>>
    /\ IF ~tableExists
       THEN /\ reqs' = Send(reqs, c.rid, absent)
            /\ qdb' = Finish(qdb, c)
       ELSE /\ reqs' = Issue([reqs EXCEPT ![c.rid].tableExists = TRUE], c.rid, cs)
            /\ qdb' = Resume(qdb, c, cs, FALSE, early)

\* router.delete('/:queue'): 200 if the table is missing, else DROP TABLE
DeleteContinue ==
    \E c \in Done("EXISTS", "delete"), early \in BOOLEAN : ReadContinue(c, "DROP", ResEnd(200), early)

\* router.get('/:queue/depth'): 404, or SELECT count(*)
DepthContinue ==
    \E c \in Done("EXISTS", "depth"), early \in BOOLEAN : ReadContinue(c, "COUNT", ResNotFound, early)

\* router.get('/:queue/peek'): 404, or SELECT item ... LIMIT 1
PeekContinue ==
    \E c \in Done("EXISTS", "peek"), early \in BOOLEAN : ReadContinue(c, "PEEK", ResNotFound, early)

\* router.get('/:queue/export'): 404, or SELECT item ... ORDER BY position ASC
ExportContinue ==
    \E c \in Done("EXISTS", "export"), early \in BOOLEAN : ReadContinue(c, "EXPORT", ResNotFound, early)

\* ------------------------------------------------- statement callbacks
\* Mutant: a failed statement is reported as a missing queue (404).
CallbackErrorAsNotFound(c, reply) ==
    /\ reqs' = IF ~c.ok THEN Send(reqs, c.rid, ResNotFound)
               ELSE IF reply = <<>> THEN reqs
               ELSE Send(reqs, c.rid, reply[1])
    /\ qdb' = Finish(qdb, c)
    /\ UNCHANGED <<tables, inTxn, hist, cvars, mvars, pvars>>

\* A callback that only reports: (err) => { if (err) next(err); else <reply> }
\* `reply` is <<>> when the callback sends nothing on success.
Callback(c, reply) ==
    /\ reqs' = IF ~c.ok THEN Send(reqs, c.rid, ResError)
               ELSE IF reply = <<>> THEN reqs
               ELSE Send(reqs, c.rid, reply[1])
    /\ qdb' = Finish(qdb, c)
    /\ UNCHANGED <<tables, inTxn, hist, cvars, mvars, pvars>>

\* CREATE TABLE: (err) => { if (err) next(err) }
CreateCallback == \E c \in Done("CREATE", "post") : Callback(c, <<>>)

\* INSERT: (err) => { if (err) next(err); else res.status(201).end() }
InsertCallback == \E c \in Done("INSERT", "post") : Callback(c, <<ResEnd(201)>>)

\* db.run('BEGIN EXCLUSIVE TRANSACTION') has no callback.
BeginDone ==
    \E c \in Done("BEGIN", "get") :
        /\ qdb' = Finish(qdb, c)
        /\ UNCHANGED <<reqs, tables, inTxn, hist, cvars, mvars, pvars>>

\* SELECT: err -> next(err); !rows -> items = []; else items = rows.map(JSON.parse)
SelectCallback ==
    \E c \in Done("SELECT", "get") :
        /\ reqs' = IF ~c.ok THEN Send(reqs, c.rid, ResError)
                   ELSE [reqs EXCEPT ![c.rid].itemsDef = TRUE, ![c.rid].items = Payload(c.rows)]
        /\ qdb' = Finish(qdb, c)
        /\ UNCHANGED <<tables, inTxn, hist, cvars, mvars, pvars>>

\* DELETE: (err) => { if (err) next(err) }
DeleteCallback == \E c \in Done("DELETE", "get") : Callback(c, <<>>)

\* Mutant: an empty result is reported as 404.
CommitCallbackEmptyNotFound ==
    \E c \in Done("COMMIT", "get") :
        LET r == reqs[c.rid] IN
        Callback(c, <<IF r.itemsDef /\ r.items # <<>> THEN Response(200, "items", r.items, 0)
                      ELSE ResNotFound>>)

\* COMMIT: (err) => { if (err) next(err); else res.json(items) }
CommitCallback ==
    \E c \in Done("COMMIT", "get") :
        LET r == reqs[c.rid] IN
        Callback(c, <<IF r.itemsDef THEN Response(200, "items", r.items, 0)
                      ELSE Response(200, "undefined", <<>>, 0)>>)

\* DROP TABLE: (err) => { if (err) next(err); else res.status(200).end() }
DropCallback == \E c \in Done("DROP", "delete") : Callback(c, <<ResEnd(200)>>)

\* Mutant: the count is sent as 0 or 1, like dbTableExists' !!row['count(*)'].
CountCallbackTruthy ==
    \E c \in Done("COUNT", "depth") :
        Callback(c, <<Response(200, "int", <<>>, IF c.n = 0 THEN 0 ELSE 1)>>)

\* SELECT count(*): err -> next(err); else res.json(row['count(*)'])
CountCallback ==
    \E c \in Done("COUNT", "depth") : Callback(c, <<Response(200, "int", <<>>, c.n)>>)

\* Mutant: the stored text is sent as it is, without JSON.parse.
PeekCallbackUnparsed ==
    \E c \in Done("PEEK", "peek") :
        Callback(c, <<IF c.rows = <<>> THEN Response(200, "items", <<>>, 0)
                      ELSE Response(200, "items",
                                    <<[v |-> c.rows[1].item, id |-> c.rows[1].id]>>, 0)>>)

\* peek: err -> next(err); !row -> res.json([]); else res.json([JSON.parse(row.item)])
PeekCallback ==
    \E c \in Done("PEEK", "peek") :
        Callback(c, <<IF c.rows = <<>> THEN Response(200, "items", <<>>, 0)
                      ELSE Response(200, "items", Payload(c.rows), 0)>>)

\* Mutant: the export answers with the first row only.
ExportCallbackFirstRow ==
    \E c \in Done("EXPORT", "export") :
        Callback(c, <<Response(200, "items", Payload(SelectLimit(c.rows, 1)), 0)>>)

\* export: err -> next(err); else res.json(rows.map(r => JSON.parse(r.item)))
ExportCallback ==
    \E c \in Done("EXPORT", "export") : Callback(c, <<Response(200, "items", Payload(c.rows), 0)>>)

\* list: err -> next(err); else res.json(rows.map(r => r.name))
QueueListCallback ==
    \E c \in Done("LIST", "list") : Callback(c, <<Response(200, "names", c.rows, 0)>>)

QueueNext ==
    \/ QueuePost \/ QueueGet \/ QueueDelete \/ QueueDepth \/ QueuePeek \/ QueueExport
    \/ Exec
    \/ PostContinue \/ GetContinue \/ DeleteContinue \/ DepthContinue \/ PeekContinue
    \/ ExportContinue
    \/ CreateCallback \/ InsertCallback \/ BeginDone \/ SelectCallback
    \/ DeleteCallback \/ CommitCallback \/ DropCallback \/ CountCallback \/ PeekCallback
    \/ ExportCallback



\* ========================================================== maps.sqlite
\* The map routes (src/server/routes/person.js, lines 120-248): one
\* connection, every statement issued outside db.serialize().
MapKeys == {"k", "m"}

\* The POST bodies: a JSON value, or the empty string, which is rejected.
MapBodies == JsonVals \cup {""}

\* body().notEmpty()
NotEmpty(v) == v # ""

NoEntry == [present |-> FALSE, value |-> ""]

\* Mutant: INSERT OR IGNORE -- the first value put under a key stays.
UpsertIgnore(row, text) == IF row.present THEN row ELSE [present |-> TRUE, value |-> text]

\* INSERT OR REPLACE INTO maps (name, value) VALUES (?, ?)
Upsert(row, text) == [present |-> TRUE, value |-> text]

\* res.status(404).json({ key: mapKey, message: 'Map key was not found'})
ResKeyNotFound == Response(404, "keynotfound", <<>>, 0)

\* The effect of statement c of request r on the row of its key.
MapSqlRun(c, r, row) ==
    CASE c.stmt = "PUT" -> [rows |-> <<>>, row |-> Upsert(row, JSONstringify(r.body))]
      [] c.stmt = "GET" -> [rows |-> IF row.present THEN <<row.value>> ELSE <<>>, row |-> row]
      [] c.stmt = "DEL" -> [rows |-> <<>>, row |-> NoEntry]

MapRequest(kind, key, body) ==
    [kind |-> kind, name |-> key, body |-> body, sent |-> <<>>,
     \* history, read by no handler:
     conc |-> {},         \* earlier requests not yet answered when this one arrived
     issued |-> <<>>,     \* the statements it handed to the connection
     ran |-> FALSE,       \* its statement took effect
     before |-> NoEntry,  \* the row before its statement
     after |-> NoEntry,   \* the row after its statement
     last |-> 0]          \* the request whose write was the latest when its statement ran

MapInit ==
    /\ mreqs = <<>>
    /\ mdb = [queue |-> <<>>, locked |-> FALSE, run |-> {}]
    /\ maps = [key \in MapKeys |-> NoEntry]
    /\ mlog = [key \in MapKeys |-> <<>>]

\* maps.sqlite is a file: the server may start on keys an earlier run left.
MapInitStored ==
    /\ mreqs = <<>>
    /\ mdb = [queue |-> <<>>, locked |-> FALSE, run |-> {}]
    /\ maps \in [MapKeys -> {NoEntry} \cup
                              {[present |-> TRUE, value |-> JSONstringify(v)] : v \in JsonVals}]
    /\ mlog = [key \in MapKeys |-> <<>>]

\* A map request is received and its handler issues one statement.
MapReceive(kind, key, body, stmt) ==
    LET rid == Len(mreqs) + 1
        c == Call(rid, stmt)
    IN
    /\ Len(mreqs) < MaxReq
    /\ mreqs' = Issue(Append(mreqs, [MapRequest(kind, key, body)
                                        EXCEPT !.conc = Unanswered(mreqs)]), rid, <<c>>)
    /\ mdb' = Schedule(mdb, c, FALSE)
    /\ UNCHANGED <<maps, mlog, qvars, cvars, pvars>>

\* POST /map/:map: 400 for an empty body, else one INSERT OR REPLACE of
\* JSON.stringify(req.body)
MapPost ==
    \E key \in MapKeys, body \in MapBodies :
        IF ~NotEmpty(body)
        THEN /\ Len(mreqs) < MaxReq
             /\ mreqs' = Append(mreqs, [MapRequest("post", key, body)
                                           EXCEPT !.conc = Unanswered(mreqs),
                                                  !.sent = <<ResInvalid>>])
             /\ UNCHANGED <<mdb, maps, mlog, qvars, cvars, pvars>>
        ELSE MapReceive("post", key, body, "PUT")

\* A map route with a key that is not alphanumeric: 400 before any statement.
MapReject ==
    \E kind \in {"post", "get", "delete"}, key \in BadNames :
        /\ ~IsAlphanumeric(key)
        /\ Len(mreqs) < MaxReq
        /\ mreqs' = Append(mreqs, [MapRequest(kind, key, "")
                                      EXCEPT !.conc = Unanswered(mreqs), !.sent = <<ResInvalid>>])
        /\ UNCHANGED <<mdb, maps, mlog, qvars, cvars, pvars>>

\* GET /map/:map: one SELECT
MapGet == \E key \in MapKeys : MapReceive("get", key, "", "GET")

\* DELETE /map/:map: one DELETE
MapDelete == \E key \in MapKeys : MapReceive("delete", key, "", "DEL")

\* The last element of a log, 0 for an empty one.
LastOf(log) == IF log = <<>> THEN 0 ELSE log[Len(log)]

\* The thread pool runs a started statement against maps.sqlite.
MapExec ==
    \E c \in mdb.run :
        /\ ~c.done
        /\ LET r == mreqs[c.rid]
               res == MapSqlRun(c, r, maps[r.name])
               cd == [c EXCEPT !.done = TRUE, !.rows = res.rows]
           IN
           /\ mdb' = [mdb EXCEPT !.run = (@ \ {c}) \cup {cd}]
           /\ maps' = [maps EXCEPT ![r.name] = res.row]
           /\ mreqs' = [mreqs EXCEPT ![c.rid].ran = TRUE,
                                     ![c.rid].before = maps[r.name],
                                     ![c.rid].after = res.row,
                                     ![c.rid].last = LastOf(mlog[r.name])]
           /\ mlog' = IF c.stmt \in {"PUT", "DEL"}
                      THEN [mlog EXCEPT ![r.name] = Append(@, c.rid)]
                      ELSE mlog
        /\ UNCHANGED <<qvars, cvars, pvars>>

MapDone(stmt) == {c \in mdb.run : c.done /\ c.stmt = stmt}

\* (err) => { if (err) next(err); else <reply> }
MapCallback(c, reply) ==
    /\ mreqs' = IF ~c.ok THEN Send(mreqs, c.rid, ResError) ELSE Send(mreqs, c.rid, reply)
    /\ mdb' = Finish(mdb, c)
    /\ UNCHANGED <<maps, mlog, qvars, cvars, pvars>>

\* POST: (err) => { if (err) next(err); else res.status(201).end() }
MapPutCallback == \E c \in MapDone("PUT") : MapCallback(c, ResEnd(201))

\* Mutant: a missing row is answered 200 with null.
MapGetCallbackNull ==
    \E c \in MapDone("GET") :
        MapCallback(c, IF c.rows = <<>> THEN Response(200, "value", <<>>, 0)
                       ELSE Response(200, "value", <<JSONparse(c.rows[1])>>, 0))

\* GET: err -> next(err); !row -> 404; else res.json(JSON.parse(row.value)),
\* and next(err) when JSON.parse throws.
MapGetCallback ==
    \E c \in MapDone("GET") :
        MapCallback(c, IF c.rows = <<>> THEN ResKeyNotFound
                       ELSE IF JSONparse(c.rows[1]) = "SyntaxError" THEN ResError
                       ELSE Response(200, "value", <<JSONparse(c.rows[1])>>, 0))

\* DELETE: (err) => { if (err) next(err); else res.status(200).end() }
MapDelCallback == \E c \in MapDone("DEL") : MapCallback(c, ResEnd(200))

MapNext ==
    \/ MapPost \/ MapGet \/ MapDelete
    \/ MapExec
    \/ MapPutCallback \/ MapGetCallback \/ MapDelCallback

\* ====================================================== counters.sqlite
\* The counter names of the requests, and the values POSTed to initialise one.
CounterNames == {"c", "d"}

\* ORDER BY name
NameOrder == <<"c", "d">>

MaxStart == 2

StartValues == 1..MaxStart

\* Number.MAX_SAFE_INTEGER (2^53 - 1), scaled down to the largest value POSTed.
\* SQLite keeps 64-bit integers; JavaScript numbers are doubles: the integers
\* up to MaxSafe + 1 (2^53) are exact, above that only every second one is.
MaxSafe == MaxStart

\* The JavaScript number made of a 64-bit integer column value: the nearest
\* double, ties to the even mantissa.
ToNumber(n) ==
    LET d == n - (MaxSafe + 1) IN
    IF d <= 0 \/ d % 2 = 0 THEN n
    ELSE IF d % 4 = 1 THEN n - 1 ELSE n + 1

\* The bodies POSTed to /counter/:counter: integers, valid or not.
PostValues == 0..(MaxSafe + 1)

\* Mutant: body().isInt({min: 0, max: Number.MAX_SAFE_INTEGER})
ValidStartMinZero(v) == v >= 0 /\ v <= MaxSafe

\* body().isInt({min: 1, max: Number.MAX_SAFE_INTEGER})
ValidStart(v) == v >= 1 /\ v <= MaxSafe


NoCounter == [present |-> FALSE, value |-> 0]

\* Mutant: COALESCE((SELECT value ...), 1) + 1 -- a new counter starts at 2.
IncrementValueCoalesceFirst(row) == IF row.present THEN row.value + 1 ELSE 2

\* INSERT OR REPLACE INTO counters (name, value)
\*   VALUES (?, COALESCE((SELECT value FROM counters WHERE name = ?) + 1, 1))
IncrementValue(row) == IF row.present THEN row.value + 1 ELSE 1

\* The effect of statement c of request r on the row of its counter.
CounterSqlRun(c, r, row, txn) ==
    LET fail == [ok |-> FALSE, rows |-> <<>>, row |-> row, txn |-> txn]
        good == [ok |-> TRUE, rows |-> <<>>, row |-> row, txn |-> txn]
    IN
    CASE c.stmt = "BEGIN"  -> IF txn THEN fail ELSE [good EXCEPT !.txn = TRUE]
      [] c.stmt = "INCR"   -> [good EXCEPT !.row = [present |-> TRUE, value |-> IncrementValue(row)]]
      [] c.stmt = "READ"   -> [good EXCEPT !.rows = IF row.present THEN <<row.value>> ELSE <<>>]
      [] c.stmt = "COMMIT" -> IF ~txn THEN fail ELSE [good EXCEPT !.txn = FALSE]
      [] c.stmt = "UPSERT" -> [good EXCEPT !.row = [present |-> TRUE, value |-> r.value]]
      [] c.stmt = "REMOVE" -> [good EXCEPT !.row = NoCounter]
      [] c.stmt = "LIST"   -> good

\* SELECT name FROM counters ORDER by name
ListRows(tbl) == SelectSeq(NameOrder, LAMBDA name : tbl[name].present)

CounterRequest(kind, name, value) ==
    [kind |-> kind, name |-> name, value |-> value,
     payloadDef |-> FALSE, payload |-> 0, sent |-> <<>>,
     \* history, read by no handler:
     conc |-> {},         \* earlier requests not yet answered when this one arrived
     issued |-> <<>>,     \* the statements it handed to the connection
     ran |-> FALSE,       \* its write (or its list query) took effect
     before |-> NoCounter,  \* the row before its write
     after |-> NoCounter,   \* the row after its write
     listed |-> <<>>,     \* the table's names when its list query ran
     faulted |-> {}]      \* its statements that the store failed

CounterInit ==
    /\ creqs = <<>>
    /\ cdb = [queue |-> <<>>, locked |-> FALSE, run |-> {}]
    /\ counters = [name \in CounterNames |-> NoCounter]
    /\ cTxn = FALSE
    /\ clog = [name \in CounterNames |-> <<>>]

\* counters.sqlite is a file: the server may start on counters an earlier run left.
CounterInitStored ==
    /\ creqs = <<>>
    /\ cdb = [queue |-> <<>>, locked |-> FALSE, run |-> {}]
    /\ counters \in [CounterNames ->
                        {NoCounter} \cup {[present |-> TRUE, value |-> v] : v \in StartValues}]
    /\ cTxn = FALSE
    /\ clog = [name \in CounterNames |-> <<>>]

\* ---------------------------------------------------------- persons.sqlite
\* What faker.name.firstName / lastName return, after retryIfNotAlpha.
FirstNames == {"Ann", "Bob"}
LastNames == {"Lee"}

\* String.prototype.toLowerCase
ToLowerCase(str) ==
    CASE str = "Ann" -> "ann" [] str = "Bob" -> "bob" [] str = "Lee" -> "lee"

\* Number.prototype.toString(32): the digits of n in base 32, most
\* significant first (digit d stands for the character "0123456789abcdefghijklmnopqrstuv"[d]).
RECURSIVE ToString32(_)
ToString32(n) == IF n < 32 THEN <<n>> ELSE Append(ToString32(n \div 32), n % 32)

\* `${firstName.toLowerCase()}.${lastName.toLowerCase()}.${counter.toString(32)}@myloadtest.email`
Email(firstName, lastName, counter) ==
    <<ToLowerCase(firstName), ToLowerCase(lastName), ToString32(counter)>>

\* The values of personCount an earlier run may have left.
StoredCounts == {31}

PersonRequest(firstName, lastName) ==
    [firstName |-> firstName, lastName |-> lastName,
     counterDef |-> FALSE, counter |-> 0, sent |-> <<>>,
     \* history, read by no handler:
     issued |-> <<>>,     \* the statements it handed to the connection
     faulted |-> {}]      \* its statements that the store failed

\* Table persons of a new persons.sqlite is empty.
PersonInit ==
    /\ preqs = <<>>
    /\ pdb = [queue |-> <<>>, locked |-> FALSE, run |-> {}]
    /\ persons = NoCounter
    /\ pTxn = FALSE

\* persons.sqlite is a file: table persons is empty or holds the one row
\* 'personCount' an earlier run left.
PersonInitStored ==
    /\ preqs = <<>>
    /\ pdb = [queue |-> <<>>, locked |-> FALSE, run |-> {}]
    /\ persons \in {NoCounter} \cup {[present |-> TRUE, value |-> v] : v \in StoredCounts}
    /\ pTxn = FALSE

Init == QueueInit /\ CounterInit /\ MapInit /\ PersonInit

\* A counter request is received and its handler issues statements cs.
CounterReceive(kind, name, value, cs, serialize) ==
    LET rid == Len(creqs) + 1 IN
    /\ Len(creqs) < MaxReq
    /\ creqs' = Issue(Append(creqs, [CounterRequest(kind, name, value)
                                        EXCEPT !.conc = Unanswered(creqs)]), rid, cs)
    /\ cdb' = ScheduleAll(cdb, cs, serialize)
    /\ UNCHANGED <<counters, cTxn, clog, qvars, mvars, pvars>>

\* POST /counter/:counter with an integer body: 400 unless it is valid, else
\* one INSERT OR REPLACE
CounterPost ==
    \E name \in CounterNames, value \in PostValues :
        IF ~ValidStart(value)
        THEN /\ Len(creqs) < MaxReq
             /\ creqs' = Append(creqs, [CounterRequest("post", name, value)
                                           EXCEPT !.conc = Unanswered(creqs),
                                                  !.sent = <<ResInvalid>>])
             /\ UNCHANGED <<cdb, counters, cTxn, clog, qvars, mvars, pvars>>
        ELSE CounterReceive("post", name, value, <<Call(Len(creqs) + 1, "UPSERT")>>, FALSE)

\* A counter route with a name that is not alphanumeric: 400 before any
\* statement.
CounterReject ==
    \E kind \in {"post", "get", "delete"}, name \in BadNames, value \in PostValues :
        /\ ~IsAlphanumeric(name)
        /\ kind # "post" => value = 0
        /\ Len(creqs) < MaxReq
        /\ creqs' = Append(creqs, [CounterRequest(kind, name, value)
                                      EXCEPT !.conc = Unanswered(creqs), !.sent = <<ResInvalid>>])
        /\ UNCHANGED <<cdb, counters, cTxn, clog, qvars, mvars, pvars>>

\* GET /counter: one SELECT
CounterList ==
    CounterReceive("list", NameOrder[1], 0, <<Call(Len(creqs) + 1, "LIST")>>, FALSE)

\* Mutant: the four statements are issued without db.serialize().
CounterGetUnserialized ==
    \E name \in CounterNames :
        LET rid == Len(creqs) + 1 IN
        CounterReceive("get", name, 0,
                       <<Call(rid, "BEGIN"), Call(rid, "INCR"), Call(rid, "READ"),
                         Call(rid, "COMMIT")>>, FALSE)

\* GET /counter/:counter: db.serialize(() => { BEGIN; INSERT OR REPLACE; SELECT; COMMIT })
CounterGet ==
    \E name \in CounterNames :
        LET rid == Len(creqs) + 1 IN
        CounterReceive("get", name, 0,
                       <<Call(rid, "BEGIN"), Call(rid, "INCR"), Call(rid, "READ"),
                         Call(rid, "COMMIT")>>, TRUE)

\* DELETE /counter/:counter: one DELETE
CounterDelete ==
    \E name \in CounterNames :
        CounterReceive("delete", name, 0, <<Call(Len(creqs) + 1, "REMOVE")>>, FALSE)

\* The thread pool runs a started statement against counters.sqlite.
CounterExec ==
    \E c \in cdb.run :
        /\ ~c.done
        /\ LET r == creqs[c.rid]
               res == CounterSqlRun(c, r, counters[r.name], cTxn)
               cd == [c EXCEPT !.done = TRUE, !.ok = res.ok,
                               !.rows = IF c.stmt = "LIST" THEN ListRows(counters)
                                        ELSE res.rows]
           IN
           /\ cdb' = [cdb EXCEPT !.run = (@ \ {c}) \cup {cd}]
           /\ counters' = [counters EXCEPT ![r.name] = res.row]
           /\ cTxn' = res.txn
           /\ IF c.stmt \in {"INCR", "UPSERT", "REMOVE"}
              THEN /\ creqs' = [creqs EXCEPT ![c.rid].ran = TRUE,
                                             ![c.rid].before = counters[r.name],
                                             ![c.rid].after = res.row]
                   /\ clog' = [clog EXCEPT ![r.name] = Append(@, c.rid)]
              ELSE IF c.stmt = "LIST"
              THEN /\ creqs' = [creqs EXCEPT ![c.rid].ran = TRUE,
                                             ![c.rid].listed = ListRows(counters)]
                   /\ UNCHANGED clog
              ELSE UNCHANGED <<creqs, clog>>
        /\ UNCHANGED <<qvars, mvars, pvars>>

\* The statements of an increment: each can come back with an error
\* (SQLITE_BUSY, SQLITE_IOERR, ...), which the callbacks test with `if (err)`.
FaultStmts == {"BEGIN", "INCR", "READ", "COMMIT"}

MaxFaults == 1     \* statements failed by the store per run

FaultCount(rs) == Cardinality({<<i, stmt>> \in (1..Len(rs)) \X FaultStmts : stmt \in rs[i].faulted})

\* The store fails a started statement: it changes nothing and its callback
\* gets the error.  A failed COMMIT leaves the transaction open.
CounterExecFault ==
    \E c \in cdb.run :
        /\ ~c.done
        /\ c.stmt \in FaultStmts
        /\ FaultCount(creqs) < MaxFaults
        /\ cdb' = [cdb EXCEPT !.run = (@ \ {c}) \cup {[c EXCEPT !.done = TRUE, !.ok = FALSE]}]
        /\ creqs' = [creqs EXCEPT ![c.rid].faulted = @ \cup {c.stmt}]
        /\ UNCHANGED <<counters, cTxn, clog, qvars, mvars, pvars>>

CounterDone(stmt) == {c \in cdb.run : c.done /\ c.stmt = stmt}

\* (err) => { if (err) next(err); else <reply> }
CounterCallback(c, reply) ==
    /\ creqs' = IF ~c.ok THEN Send(creqs, c.rid, ResError)
                ELSE IF reply = <<>> THEN creqs
                ELSE Send(creqs, c.rid, reply[1])
    /\ cdb' = Finish(cdb, c)
    /\ UNCHANGED <<counters, cTxn, clog, qvars, mvars, pvars>>

\* db.run('BEGIN EXCLUSIVE TRANSACTION') has no callback.
CounterBeginDone ==
    \E c \in CounterDone("BEGIN") :
        /\ cdb' = Finish(cdb, c)
        /\ UNCHANGED <<creqs, counters, cTxn, clog, qvars, mvars, pvars>>

\* query1: (err) => { if (err) next(err) }
IncrCallback == \E c \in CounterDone("INCR") : CounterCallback(c, <<>>)

\* query2: (err, row) => { if (err) next(err); else payload = row.value }
\* With no row, row.value throws a TypeError: the request sends nothing here.
ReadCallback ==
    \E c \in CounterDone("READ") :
        /\ creqs' = IF ~c.ok THEN Send(creqs, c.rid, ResError)
                    ELSE IF c.rows = <<>> THEN creqs
                    ELSE [creqs EXCEPT ![c.rid].payloadDef = TRUE,
                                       ![c.rid].payload = ToNumber(c.rows[1])]
        /\ cdb' = Finish(cdb, c)
        /\ UNCHANGED <<counters, cTxn, clog, qvars, mvars, pvars>>

\* COMMIT: (err) => { if (err) next(err); else res.json(payload) }
CounterCommitCallback ==
    \E c \in CounterDone("COMMIT") :
        LET r == creqs[c.rid] IN
        CounterCallback(c, <<IF r.payloadDef THEN Response(200, "int", <<>>, r.payload)
                             ELSE Response(200, "undefined", <<>>, 0)>>)

\* POST: (err) => { if (err) next(err); else res.status(201).end() }
UpsertCallback == \E c \in CounterDone("UPSERT") : CounterCallback(c, <<ResEnd(201)>>)

\* Mutant: a DELETE that removed no row (this.changes === 0) is answered 404.
RemoveCallbackNotFound ==
    \E c \in CounterDone("REMOVE") :
        CounterCallback(c, <<IF creqs[c.rid].before.present THEN ResEnd(200) ELSE ResNotFound>>)

\* DELETE: (err) => { if (err) next(err); else res.status(200).end() }
RemoveCallback == \E c \in CounterDone("REMOVE") : CounterCallback(c, <<ResEnd(200)>>)

\* list: err -> next(err); else res.json(rows.map(r => r.name))
ListCallback ==
    \E c \in CounterDone("LIST") : CounterCallback(c, <<Response(200, "names", c.rows, 0)>>)

CounterNext ==
    \/ CounterPost \/ CounterGet \/ CounterDelete \/ CounterList
    \/ CounterExec
    \/ CounterBeginDone \/ IncrCallback \/ ReadCallback \/ CounterCommitCallback
    \/ UpsertCallback \/ RemoveCallback \/ ListCallback

\* ----------------------------------------------------------- GET /person
\* Mutant: the handler reads personCount without incrementing it.
PersonGetReadOnly ==
    \E firstName \in FirstNames, lastName \in LastNames :
        LET rid == Len(preqs) + 1
            cs == <<Call(rid, "BEGIN"), Call(rid, "READ"), Call(rid, "COMMIT")>>
        IN
        /\ Len(preqs) < MaxReq
        /\ preqs' = Issue(Append(preqs, PersonRequest(firstName, lastName)), rid, cs)
        /\ pdb' = ScheduleAll(pdb, cs, TRUE)
        /\ UNCHANGED <<persons, pTxn, qvars, cvars, mvars>>

\* GET /person: random names, then
\* db.serialize(() => { BEGIN; INSERT OR REPLACE; SELECT; COMMIT })
PersonGet ==
    \E firstName \in FirstNames, lastName \in LastNames :
        LET rid == Len(preqs) + 1
            cs == <<Call(rid, "BEGIN"), Call(rid, "INCR"), Call(rid, "READ"), Call(rid, "COMMIT")>>
        IN
        /\ Len(preqs) < MaxReq
        /\ preqs' = Issue(Append(preqs, PersonRequest(firstName, lastName)), rid, cs)
        /\ pdb' = ScheduleAll(pdb, cs, TRUE)
        /\ UNCHANGED <<persons, pTxn, qvars, cvars, mvars>>

\* The thread pool runs a started statement against persons.sqlite.
PersonExec ==
    \E c \in pdb.run :
        /\ ~c.done
        /\ LET res == CounterSqlRun(c, preqs[c.rid], persons, pTxn) IN
           /\ pdb' = [pdb EXCEPT !.run = (@ \ {c}) \cup
                                        {[c EXCEPT !.done = TRUE, !.ok = res.ok, !.rows = res.rows]}]
           /\ persons' = res.row
           /\ pTxn' = res.txn
        /\ UNCHANGED <<preqs, qvars, cvars, mvars>>

\* The store fails a started statement: it changes nothing and its callback
\* gets the error.
PersonExecFault ==
    \E c \in pdb.run :
        /\ ~c.done
        /\ c.stmt \in FaultStmts
        /\ FaultCount(preqs) < MaxFaults
        /\ pdb' = [pdb EXCEPT !.run = (@ \ {c}) \cup {[c EXCEPT !.done = TRUE, !.ok = FALSE]}]
        /\ preqs' = [preqs EXCEPT ![c.rid].faulted = @ \cup {c.stmt}]
        /\ UNCHANGED <<persons, pTxn, qvars, cvars, mvars>>

PersonDone(stmt) == {c \in pdb.run : c.done /\ c.stmt = stmt}

\* db.run('BEGIN EXCLUSIVE TRANSACTION') has no callback.
PersonBeginDone ==
    \E c \in PersonDone("BEGIN") :
        /\ pdb' = Finish(pdb, c)
        /\ UNCHANGED <<preqs, persons, pTxn, qvars, cvars, mvars>>

\* query1: (err) => { if (err) next(err) }
PersonIncrCallback ==
    \E c \in PersonDone("INCR") :
        /\ preqs' = IF ~c.ok THEN Send(preqs, c.rid, ResError) ELSE preqs
        /\ pdb' = Finish(pdb, c)
        /\ UNCHANGED <<persons, pTxn, qvars, cvars, mvars>>

\* query2: (err, row) => { if (err) next(err); else counter = row.value }
\* With no row, row.value throws a TypeError: nothing is sent here.
PersonReadCallback ==
    \E c \in PersonDone("READ") :
        /\ preqs' = IF ~c.ok THEN Send(preqs, c.rid, ResError)
                    ELSE IF c.rows = <<>> THEN preqs
                    ELSE [preqs EXCEPT ![c.rid].counterDef = TRUE, ![c.rid].counter = c.rows[1]]
        /\ pdb' = Finish(pdb, c)
        /\ UNCHANGED <<persons, pTxn, qvars, cvars, mvars>>

\* COMMIT: (err) => { if (err) next(err); else res.json({..., email}) }
\* With counter undefined, counter.toString throws a TypeError: nothing is sent.
PersonCommitCallback ==
    \E c \in PersonDone("COMMIT") :
        LET r == preqs[c.rid] IN
        /\ preqs' = IF ~c.ok THEN Send(preqs, c.rid, ResError)
                    ELSE IF ~r.counterDef THEN preqs
                    ELSE Send(preqs, c.rid,
                              Response(200, "person", Email(r.firstName, r.lastName, r.counter), 0))
        /\ pdb' = Finish(pdb, c)
        /\ UNCHANGED <<persons, pTxn, qvars, cvars, mvars>>

PersonNext ==
    \/ PersonGet
    \/ PersonExec \/ PersonExecFault
    \/ PersonBeginDone \/ PersonIncrCallback \/ PersonReadCallback \/ PersonCommitCallback

InitPersonStored == QueueInit /\ CounterInit /\ MapInit /\ PersonInitStored

SpecPerson == InitPersonStored /\ [][PersonNext]_vars

SpecQueue == Init /\ [][QueueNext]_vars

\* The queue routes on a store that an earlier run may have left non-empty.
InitStored == QueueInitStored /\ CounterInit /\ MapInit /\ PersonInit

SpecQueueStored == InitStored /\ [][QueueNext]_vars

SpecCounter == Init /\ [][CounterNext]_vars

\* The counter routes on a store that an earlier run may have left non-empty.
InitCounterStored == QueueInit /\ CounterInitStored /\ MapInit /\ PersonInit

SpecCounterStored == InitCounterStored /\ [][CounterNext]_vars

\* The counter routes on a store that can fail statements.
CounterNextFaulty == CounterNext \/ CounterExecFault

SpecCounterFaulty == Init /\ [][CounterNextFaulty]_vars

\* All three families together, with requests that fail validation.
\* At most MaxReq requests in all.
ServerBudget == Len(reqs) + Len(creqs) + Len(mreqs) < MaxReq

ServerNext ==
    \/ ServerBudget /\ QueuePost
    \/ ServerBudget /\ QueueGet
    \/ ServerBudget /\ QueueDelete
    \/ ServerBudget /\ QueueDepth
    \/ ServerBudget /\ QueuePeek
    \/ ServerBudget /\ QueueExport
    \/ ServerBudget /\ QueueReject
    \/ Exec
    \/ PostContinue \/ GetContinue \/ DeleteContinue \/ DepthContinue \/ PeekContinue
    \/ ExportContinue
    \/ CreateCallback \/ InsertCallback \/ BeginDone \/ SelectCallback
    \/ DeleteCallback \/ CommitCallback \/ DropCallback \/ CountCallback \/ PeekCallback
    \/ ExportCallback
    \/ ServerBudget /\ CounterPost
    \/ ServerBudget /\ CounterGet
    \/ ServerBudget /\ CounterDelete
    \/ ServerBudget /\ CounterList
    \/ ServerBudget /\ CounterReject
    \/ CounterExec
    \/ CounterBeginDone \/ IncrCallback \/ ReadCallback \/ CounterCommitCallback
    \/ UpsertCallback \/ RemoveCallback \/ ListCallback
    \/ ServerBudget /\ MapPost
    \/ ServerBudget /\ MapGet
    \/ ServerBudget /\ MapDelete
    \/ ServerBudget /\ MapReject
    \/ MapExec
    \/ MapPutCallback \/ MapGetCallback \/ MapDelCallback

SpecServer == Init /\ [][ServerNext]_vars

\* The routes that run statements in a transaction or next to one: enqueue,
\* dequeue, clear, depth, peek and the counter increment, served together.
LiveNext ==
    \/ ServerBudget /\ QueuePost
    \/ ServerBudget /\ QueueGet
    \/ ServerBudget /\ QueueDelete
    \/ ServerBudget /\ QueueDepth
    \/ ServerBudget /\ QueuePeek
    \/ Exec
    \/ PostContinue \/ GetContinue \/ DeleteContinue \/ DepthContinue \/ PeekContinue
    \/ CreateCallback \/ InsertCallback \/ BeginDone \/ SelectCallback
    \/ DeleteCallback \/ CommitCallback \/ DropCallback \/ CountCallback \/ PeekCallback
    \/ ServerBudget /\ CounterGet
    \/ CounterExec
    \/ CounterBeginDone \/ IncrCallback \/ ReadCallback \/ CounterCommitCallback

\* The steps the server takes by itself: the thread pool runs a started
\* statement, the event loop runs a continuation or a callback that is ready.
LiveProgress ==
    \/ Exec
    \/ PostContinue \/ GetContinue \/ DeleteContinue \/ DepthContinue \/ PeekContinue
    \/ CreateCallback \/ InsertCallback \/ BeginDone \/ SelectCallback
    \/ DeleteCallback \/ CommitCallback \/ DropCallback \/ CountCallback \/ PeekCallback
    \/ CounterExec
    \/ CounterBeginDone \/ IncrCallback \/ ReadCallback \/ CounterCommitCallback

\* As long as one of these steps is possible the server takes one; nothing
\* obliges a client to send a request.
LiveFairness == WF_vars(LiveProgress)

SpecLive == Init /\ [][LiveNext]_vars /\ LiveFairness

\* The queue routes with the list route, on a store with other queues.
InitOthers == QueueInitOthers /\ CounterInit /\ MapInit /\ PersonInit

QueueNextList == QueueNext \/ QueueList \/ QueueListCallback

SpecQueueList == InitOthers /\ [][QueueNextList]_vars

\* The queue routes with names that differ in letter case only.
QueueNextCase == QueueNext \/ QueueCase

SpecQueueCase == Init /\ [][QueueNextCase]_vars

SpecMap == Init /\ [][MapNext]_vars

\* The map routes on a store that an earlier run may have left non-empty.
InitMapStored == QueueInit /\ CounterInit /\ MapInitStored /\ PersonInit

SpecMapStored == InitMapStored /\ [][MapNext]_vars


\* =============================================================== claims
\* Requests by route, and what a request was answered.
QueueReqs(kind) == {i \in 1..Len(reqs) : reqs[i].kind = kind}

Items(i) == IF Answered(reqs[i]) /\ Answer(reqs[i]).kind = "items"
            THEN Answer(reqs[i]).items ELSE <<>>

ItemIds(i) == {Items(i)[k].id : k \in 1..Len(Items(i))}

RowIds(name) == {tables[name].rows[k].id : k \in 1..Len(tables[name].rows)}

\* ------------------------------------------------------------------ C1
CounterGets(name) == {i \in 1..Len(creqs) : creqs[i].name = name /\ creqs[i].kind = "get"}

OnlyIncrements(name) == \A i \in 1..Len(creqs) : creqs[i].name = name => creqs[i].kind = "get"

\* C1: on a fresh counter that receives only incrementAndGet requests, however
\* they overlap, the answered ones returned 200 with the values 1..k, each
\* once, and when all N are answered the stored value is N.
C1_ExactlyOnceSequence ==
    \A name \in CounterNames :
        OnlyIncrements(name) =>
            LET A == {i \in CounterGets(name) : Answered(creqs[i])} IN
            /\ \A i \in A : Answer(creqs[i]).status = 200 /\ Answer(creqs[i]).kind = "int"
            /\ {Answer(creqs[i]).n : i \in A} = 1..Cardinality(A)
            /\ \A i, j \in A : i # j => Answer(creqs[i]).n # Answer(creqs[j]).n
            /\ \A i \in A : Len(creqs[i].sent) = 1
            /\ (A = CounterGets(name) /\ A # {}) =>
                   counters[name] = [present |-> TRUE, value |-> Cardinality(A)]

\* MaxReq increments, each received while all earlier ones were unanswered,
\* are all answered.
C1_Witness ==
    /\ Len(creqs) = MaxReq
    /\ \A i \in 1..MaxReq :
           /\ creqs[i].kind = "get" /\ creqs[i].conc = 1..(i - 1)
           /\ Answered(creqs[i])

\* ------------------------------------------------------------------ C2
\* C2: no item is returned by two dequeues (nor twice by one), and an item a
\* dequeue returned is in no queue.
C2_NoDuplicateDequeue ==
    /\ \A i, j \in QueueReqs("get") : i # j => ItemIds(i) \cap ItemIds(j) = {}
    /\ \A i \in QueueReqs("get") :
           /\ Cardinality(ItemIds(i)) = Len(Items(i))
           /\ \A name \in Names : ItemIds(i) \cap RowIds(name) = {}

\* Two overlapping dequeues on one queue each returned an item: the items
\* that i returned were removed between j's existence check and j's SELECT.
C2_Witness ==
    \E i, j \in QueueReqs("get") :
        /\ i # j /\ reqs[i].name = reqs[j].name
        /\ ItemIds(i) # {} /\ ItemIds(j) # {}
        /\ reqs[j].checked.exists
        /\ reqs[j].checked.depth = reqs[j].seen.depth + Len(Items(i))


\* ------------------------------------------------------------------ C3
\* The items a POST appended: its INSERT ran against an existing table.
Inserted(i) == reqs[i].kind = "post" /\ reqs[i].seen.at = "INSERT" /\ reqs[i].seen.exists

ItemsOf(i) == {<<i, k>> : k \in 1..Len(reqs[i].body)}

AllInserted == UNION {ItemsOf(i) : i \in {j \in 1..Len(reqs) : Inserted(j)}}

\* The dequeues whose DELETE removed the item.
Takers(id) == {i \in QueueReqs("get") : id \in Range(reqs[i].deleted)}

\* C3: every appended item is in exactly one place: still queued, dropped by
\* a clear, or removed by exactly one dequeue; and a dequeue that removed rows
\* answers 200 with exactly the removed items, once.
C3_NoItemLost ==
    /\ \A id \in AllInserted :
           LET queued == {name \in Names : id \in RowIds(name)} IN
           /\ Cardinality(queued) + Cardinality(Takers(id))
                + (IF id \in hist.dropped THEN 1 ELSE 0) = 1
    /\ \A i \in QueueReqs("get") :
           (Answered(reqs[i]) /\ reqs[i].deleted # <<>>) =>
               /\ Answer(reqs[i]).status = 200
               /\ Ids(Items(i)) = reqs[i].deleted
               /\ Len(reqs[i].sent) = 1

\* One appended item was returned by a dequeue and another was dropped by a
\* clear.
C3_Witness ==
    /\ \E id \in AllInserted : \E i \in Takers(id) : id \in ItemIds(i)
    /\ \E id \in AllInserted : id \in hist.dropped

\* ------------------------------------------------------------------ C4
\* The dequeues at the head of `order` that are answered.
RECURSIVE AnsweredHead(_)
AnsweredHead(order) ==
    IF order = <<>> \/ ~Answered(reqs[Head(order)]) THEN <<>>
    ELSE <<Head(order)>> \o AnsweredHead(Tail(order))

\* The value a client sent as item id.
SentValue(id) == reqs[id[1]].body[id[2]]

\* C4: per queue, since its creation: the results of the answered dequeues,
\* concatenated in the order their DELETEs took effect, are a prefix of the
\* items appended, in the order appended, and carry the values that were sent.
C4_Fifo ==
    \A name \in Names :
        LET head == AnsweredHead(hist.order[name])
            out == Flatten([k \in 1..Len(head) |-> Items(head[k])])
        IN
        /\ IsPrefix(Ids(out), hist.ins[name])
        /\ \A k \in 1..Len(out) : out[k].v = SentValue(out[k].id)

\* A batch of MaxBatch items was enqueued and one dequeue with limit MaxBatch
\* returned all of it, in order, leaving depth 0.
C4_Witness ==
    \E i \in QueueReqs("post"), j \in QueueReqs("get") :
        /\ Len(reqs[i].body) = MaxBatch /\ MaxBatch > 1
        /\ Ids(Items(j)) = [k \in 1..MaxBatch |-> <<i, k>>]
        /\ [k \in 1..MaxBatch |-> Items(j)[k].v] = reqs[i].body
        /\ reqs[j].left = 0

\* ------------------------------------------------------------------ C5
\* C5: a dequeue whose SELECT ran against an existing queue of depth n returns
\* exactly the k = min(limit, n) lowest-position items in position order
\* (limit 1 when omitted), and the depth after its DELETE is n - k.
C5_DequeueCount ==
    \A i \in QueueReqs("get") :
        LET r == reqs[i]
            n == r.seen.depth
            lim == IF r.limit = 0 THEN 1 ELSE r.limit
            k == IF lim < n THEN lim ELSE n
        IN
        (r.seen.at = "SELECT" /\ r.seen.exists /\ Answered(r)) =>
            /\ Answer(r).status = 200 /\ Answer(r).kind = "items"
            /\ Ids(Items(i)) = SubSeq(r.seen.ids, 1, k)
            /\ r.deleted = SubSeq(r.seen.ids, 1, k)
            /\ r.left = n - k

\* Dequeues answered with fewer items than the limit, with exactly the limit
\* while items remain, and with the default limit.
C5_Witness ==
    /\ \E i \in QueueReqs("get") :
           /\ reqs[i].limit > reqs[i].seen.depth /\ reqs[i].seen.depth > 0
           /\ Len(Items(i)) = reqs[i].seen.depth
    /\ \E i \in QueueReqs("get") :
           /\ reqs[i].limit = 0 /\ reqs[i].seen.depth > 1 /\ Len(Items(i)) = 1
           /\ reqs[i].left = reqs[i].seen.depth - 1


\* ------------------------------------------------------------------ C6
Readers == QueueReqs("get") \cup QueueReqs("peek") \cup QueueReqs("depth")

\* Statement c takes effect in this step.
Executes(c) == c \in qdb.run /\ ~c.done /\ [c EXCEPT !.done = TRUE] \in qdb'.run

EmptyAnswer(kind) == IF kind = "depth" THEN Response(200, "int", <<>>, 0)
                     ELSE Response(200, "items", <<>>, 0)

\* C6: a dequeue, peek or depth that finds the queue existing with depth 0 is
\* not answered 404; when its statement runs against the existing empty
\* queue it answers the empty result (depth: 0); and a table stops existing
\* only when a DROP TABLE of a clear takes effect.
C6_EmptyQueueStays ==
    /\ [](\A i \in Readers :
            LET r == reqs[i] IN
            /\ (r.checked.done /\ r.checked.exists /\ r.checked.depth = 0 /\ Answered(r))
                   => Answer(r).status # 404
            /\ (r.seen.at # "none" /\ r.seen.exists /\ r.seen.depth = 0 /\ Answered(r))
                   => Answer(r) = EmptyAnswer(r.kind))
    /\ [][\A name \in Names :
            (tables[name].exists /\ ~tables'[name].exists) =>
                \E c \in qdb.run : /\ c.stmt = "DROP" /\ reqs[c.rid].kind = "delete"
                                   /\ reqs[c.rid].name = name /\ Executes(c)]_vars

\* A dequeue emptied the queue and a later dequeue, peek or depth on it was
\* answered.
C6_Witness ==
    \E i \in Readers, j \in QueueReqs("get") :
        /\ reqs[j].deleted # <<>> /\ reqs[j].left = 0 /\ j < i
        /\ reqs[i].seen.at # "none" /\ reqs[i].seen.exists /\ reqs[i].seen.depth = 0
        /\ Answered(reqs[i])

\* ------------------------------------------------------------------ C7
\* C7: a dequeue, peek or depth whose existence check finds no table issues
\* no other statement and is answered 404, once; and the store changes only
\* when a CREATE, INSERT, DELETE or DROP statement takes effect.
C7_NotFoundUnchanged ==
    /\ [](\A i \in Readers :
            LET r == reqs[i] IN
            (r.checked.done /\ ~r.checked.exists) =>
                /\ r.issued = <<"EXISTS">>
                /\ Answered(r) => (Answer(r) = ResNotFound /\ Len(r.sent) = 1))
    /\ [][tables' # tables =>
            \E c \in qdb.run : /\ c.stmt \in {"CREATE", "INSERT", "DELETE", "DROP"}
                               /\ Executes(c)]_vars

\* After a clear, a dequeue, peek or depth was answered 404 and the queue
\* is still missing.
C7_Witness ==
    \E i \in Readers, j \in QueueReqs("delete") :
        /\ reqs[j].seen.at = "DROP" /\ reqs[j].seen.exists /\ j < i
        /\ reqs[i].checked.done /\ ~reqs[i].checked.exists
        /\ Answered(reqs[i]) /\ ~tables[reqs[i].name].exists

\* ------------------------------------------------------------------ C8
\* Where an appended item is now: queued, removed by a dequeue, or dropped.
Located(id) ==
    \/ \E name \in Names : id \in RowIds(name)
    \/ Takers(id) # {}
    \/ id \in hist.dropped

IsSuffix(s, t) == Len(s) <= Len(t) /\ s = SubSeq(t, Len(t) - Len(s) + 1, Len(t))

\* C9: what a queue holds is the tail of what was appended to it; everything
\* appended is made of whole batches, each in the order sent; rows of one
\* batch are adjacent with consecutive positions and hold the values sent; and
\* a failed INSERT appended nothing.
C9_AtomicBatch ==
    /\ \A name \in Names :
           LET rows == tables[name].rows
               ins == hist.ins[name]
           IN
           /\ IsSuffix(Ids(rows), ins)
           /\ \A p \in 1..Len(ins) :
                  IF ins[p][2] = 1
                  THEN LET len == Len(reqs[ins[p][1]].body) IN
                       /\ p + len - 1 <= Len(ins)
                       /\ \A y \in 1..len : ins[p + y - 1] = <<ins[p][1], y>>
                  ELSE p > 1 /\ ins[p - 1] = <<ins[p][1], ins[p][2] - 1>>
           /\ \A k \in 1..Len(rows) :
                  /\ rows[k].item = JSONstringify(SentValue(rows[k].id))
                  /\ k > 1 => rows[k - 1].position < rows[k].position
                  /\ (k > 1 /\ rows[k].id[2] > 1) =>
                         rows[k].position = rows[k - 1].position + 1
    /\ \A i \in QueueReqs("post") :
           (reqs[i].seen.at = "INSERT" /\ ~reqs[i].seen.exists) =>
               \A id \in ItemsOf(i) :
                   ~Located(id) /\ \A name \in Names : id \notin Range(hist.ins[name])

\* Two overlapping enqueues of MaxBatch items each are both in the queue:
\* the batch of i was appended between j's existence check and j's INSERT.
C9_Witness ==
    \E i, j \in QueueReqs("post") :
        /\ i # j /\ reqs[i].name = reqs[j].name
        /\ Len(reqs[i].body) = MaxBatch /\ Len(reqs[j].body) = MaxBatch /\ MaxBatch > 1
        /\ reqs[j].checked.done /\ reqs[j].checked.depth = 0
        /\ reqs[j].seen.at = "INSERT" /\ reqs[j].seen.ids = [k \in 1..MaxBatch |-> <<i, k>>]
        /\ ItemsOf(i) \cup ItemsOf(j) \subseteq RowIds(reqs[i].name)

\* ----------------------------------------------------------------- C10
\* C10 as claimed: every clear is answered 200.
C10_ClearAlwaysSucceeds ==
    \A i \in QueueReqs("delete") : Answered(reqs[i]) => Answer(reqs[i]) = ResEnd(200)

\* ----------------------------------------------------------------- C11
\* The requests that return items: dequeue, peek, export.
Returners == QueueReqs("get") \cup QueueReqs("peek") \cup QueueReqs("export")

\* Statement c takes effect in this step, whatever its result.
TakesEffect(c) ==
    /\ c \in qdb.run /\ ~c.done
    /\ \E d \in qdb'.run : d.rid = c.rid /\ d.stmt = c.stmt /\ d.done

\* C11: an item dropped by a clear is in no queue; the first INSERT to take
\* effect after a clear (or after the queue's creation) leaves the queue
\* holding exactly that enqueue's items, in order, so its depth is their
\* number; a dequeue, peek or export returns only items that were in the
\* queue when its statement ran, and at that moment the queue held no item
\* dropped by a clear.
C11_RecreatedHoldsOnlyNew ==
    /\ [](/\ \A name \in Names : RowIds(name) \cap hist.dropped = {}
          /\ \A i \in Returners : ItemIds(i) \subseteq Range(reqs[i].seen.ids))
    /\ [][\A c \in qdb.run :
            TakesEffect(c) =>
                LET r == reqs[c.rid] IN
                /\ (c.stmt = "INSERT" /\ tables[r.name].exists /\ hist.ins[r.name] = <<>>) =>
                       /\ Ids(tables'[r.name].rows) = [k \in 1..Len(r.body) |-> <<c.rid, k>>]
                       /\ Len(tables'[r.name].rows) = Len(r.body)
                /\ c.stmt \in {"SELECT", "PEEK", "EXPORT"} =>
                       /\ reqs'[c.rid].seen.ids = Ids(tables[r.name].rows)
                       /\ Range(reqs'[c.rid].seen.ids) \cap hist.dropped = {}]_vars

\* A clear dropped the stored items, an enqueue re-created the queue, and an
\* export after it returned exactly the new items.
C11_Witness ==
    \E i \in QueueReqs("post"), j \in QueueReqs("delete"), k \in QueueReqs("export") :
        /\ reqs[j].seen.at = "DROP" /\ reqs[j].seen.exists /\ reqs[j].seen.ids # <<>>
        /\ Range(reqs[j].seen.ids) \subseteq hist.dropped
        /\ ~reqs[i].prior /\ Inserted(i) /\ reqs[i].seen.depth = 0
        /\ ~reqs[i].checked.exists
        /\ reqs[k].seen.depth = Len(reqs[i].body)
        /\ Ids(Items(k)) = [n \in 1..Len(reqs[i].body) |-> <<i, n>>]

RECURSIVE RemovedBy(_)
RemovedBy(order) ==
    IF order = <<>> THEN 0 ELSE Len(reqs[Head(order)].deleted) + RemovedBy(Tail(order))

\* C13: a depth request whose count ran against an existing queue answers
\* 200 with the number of items in the queue at that moment; and at every
\* moment that number is the number of items appended since the queue was
\* last created minus the number removed by dequeues since then.
C13_DepthIsCount ==
    /\ \A i \in QueueReqs("depth") :
           LET r == reqs[i] IN
           (r.seen.at = "COUNT" /\ r.seen.exists /\ Answered(r)) =>
               /\ Answer(r) = Response(200, "int", <<>>, r.seen.depth)
               /\ Len(r.sent) = 1
    /\ \A name \in Names :
           Len(tables[name].rows) = Len(hist.ins[name]) - RemovedBy(hist.order[name])

\* MaxBatch items were enqueued, a dequeue returned one of them, and a depth
\* request was answered MaxBatch - 1.
C13_Witness ==
    \E i \in QueueReqs("post"), j \in QueueReqs("get"), k \in QueueReqs("depth") :
        /\ Len(reqs[i].body) = MaxBatch /\ MaxBatch > 1
        /\ Ids(Items(j)) = <<(<<i, 1>>)>>
        /\ Answered(reqs[k]) /\ Answer(reqs[k]) = Response(200, "int", <<>>, MaxBatch - 1)
        /\ reqs[k].seen.ids = [n \in 1..(MaxBatch - 1) |-> <<i, n + 1>>]

\* ----------------------------------------------------------------- C14
CounterReqs(kind) == {i \in 1..Len(creqs) : creqs[i].kind = kind}

\* The q requests whose writes took effect right after position p of a
\* counter's log are all increments.
IncrementsFollow(log, p, q) ==
    /\ p + q <= Len(log)
    /\ \A t \in 1..q : creqs[log[p + t]].kind = "get"

\* C14 as claimed: an initialize that took effect left the counter at exactly
\* its start value, whatever was there; the increment that follows it
\* returns the start value + 1 and the one after that the start value + 2.
C14_InitializeThenIncrement ==
    \A name \in CounterNames :
        LET log == clog[name] IN
        \A p \in 1..Len(log) :
            LET i == log[p] IN
            creqs[i].kind = "post" =>
                /\ creqs[i].after = [present |-> TRUE, value |-> creqs[i].value]
                /\ counters[name].present /\ p = Len(log) => counters[name] = creqs[i].after
                /\ \A q \in 1..2 :
                       (IncrementsFollow(log, p, q) /\ Answered(creqs[log[p + q]])) =>
                           Answer(creqs[log[p + q]]) =
                               Response(200, "int", <<>>, creqs[i].value + q)

\* ----------------------------------------------------------------- C15
\* Statement c of a counter request takes effect in this step.
CounterTakesEffect(c) ==
    /\ c \in cdb.run /\ ~c.done
    /\ \E d \in cdb'.run : d.rid = c.rid /\ d.stmt = c.stmt /\ d.done

\* C15: an increment is answered 200 with a number, once, never 404; its
\* write leaves the counter present, and when the counter was absent it
\* leaves it at 1 and answers 1; a list request answers the names that were
\* present when its query ran, so a counter is listed from the moment the
\* increment's write took effect.
C15_IncrementCreates ==
    /\ [](/\ \A i \in CounterReqs("get") :
                LET r == creqs[i] IN
                /\ Answered(r) =>
                       /\ Answer(r).status = 200 /\ Answer(r).kind = "int"
                       /\ Len(r.sent) = 1 /\ r.ran
                /\ r.ran => r.after.present
                /\ (r.ran /\ ~r.before.present) =>
                       /\ r.after = [present |-> TRUE, value |-> 1]
                       /\ Answered(r) => Answer(r).n = 1
          /\ \A i \in CounterReqs("list") :
                Answered(creqs[i]) =>
                    Answer(creqs[i]) = Response(200, "names", creqs[i].listed, 0))
    /\ [][\A c \in cdb.run :
            CounterTakesEffect(c) =>
                /\ c.stmt = "INCR" => counters'[creqs[c.rid].name].present
                /\ c.stmt = "LIST" =>
                       Range(creqs'[c.rid].listed) =
                           {name \in CounterNames : counters[name].present}]_vars

\* An increment found its counter absent and was answered 1, and a list
\* request whose query ran after that write was answered with the counter's
\* name.
C15_Witness ==
    \E i \in CounterReqs("get"), k \in CounterReqs("list") :
        /\ clog[creqs[i].name] = <<i>> /\ ~creqs[i].before.present
        /\ Answered(creqs[i]) /\ Answer(creqs[i]).n = 1
        /\ Answered(creqs[k]) /\ creqs[i].name \in Range(Answer(creqs[k]).items)

\* ----------------------------------------------------------------- C16
\* C16: every counter that exists holds a value >= 1; the table changes only
\* when the write of an initialize, an increment or a remove takes effect,
\* and then only in that request's counter; an increment's write raises an
\* existing counter by exactly 1 and sets an absent one to 1.
C16_CounterInvariant ==
    /\ [](\A name \in CounterNames : counters[name].present => counters[name].value >= 1)
    /\ [][counters' # counters =>
            \E c \in cdb.run :
                LET name == creqs[c.rid].name IN
                /\ CounterTakesEffect(c)
                /\ c.stmt \in {"INCR", "UPSERT", "REMOVE"}
                /\ \A other \in CounterNames \ {name} : counters'[other] = counters[other]
                /\ c.stmt = "INCR" =>
                       counters'[name] =
                           [present |-> TRUE,
                            value |-> IF counters[name].present
                                      THEN counters[name].value + 1 ELSE 1]]_vars

\* A counter was initialized and then incremented twice with nothing in
\* between: it holds the start value + 2.
C16_Witness ==
    \E name \in CounterNames :
        LET log == clog[name] IN
        /\ Len(log) = 3 /\ creqs[log[1]].kind = "post" /\ IncrementsFollow(log, 1, 2)
        /\ counters[name] = [present |-> TRUE, value |-> creqs[log[1]].value + 2]

\* ----------------------------------------------------------------- C17
\* C17: a remove is answered 200, once, whether or not the counter was there;
\* when its DELETE takes effect the counter is absent and every other
\* counter is as it was; and a list whose query runs while a counter is
\* absent does not name it.
C17_RemoveIdempotent ==
    /\ [](\A i \in CounterReqs("delete") :
            LET r == creqs[i] IN
            /\ Answered(r) => (Answer(r) = ResEnd(200) /\ Len(r.sent) = 1 /\ r.ran)
            /\ r.ran => r.after = NoCounter)
    /\ [][\A c \in cdb.run :
            CounterTakesEffect(c) =>
                LET name == creqs[c.rid].name IN
                /\ c.stmt = "REMOVE" =>
                       /\ counters'[name] = NoCounter
                       /\ \A other \in CounterNames \ {name} : counters'[other] = counters[other]
                /\ c.stmt = "LIST" =>
                       \A n \in CounterNames :
                           ~counters[n].present => n \notin Range(creqs'[c.rid].listed)]_vars

\* A counter was removed and then removed again, both answered 200; another
\* counter that no request wrote is still there; and a list answered after
\* that names only the other counter.
C17_Witness ==
    \E i, k \in CounterReqs("delete"), l \in CounterReqs("list"), other \in CounterNames :
        /\ creqs[i].name = creqs[k].name /\ other # creqs[i].name
        /\ clog[creqs[i].name] = <<i, k>>
        /\ creqs[i].before.present /\ ~creqs[k].before.present
        /\ Answered(creqs[i]) /\ Answer(creqs[i]) = ResEnd(200)
        /\ Answered(creqs[k]) /\ Answer(creqs[k]) = ResEnd(200)
        /\ clog[other] = <<>> /\ counters[other].present
        /\ k < l /\ k \notin creqs[l].conc
        /\ Answered(creqs[l]) /\ Answer(creqs[l]).items = <<other>>

\* ----------------------------------------------------------------- C18
MapReqs(kind) == {i \in 1..Len(mreqs) : mreqs[i].kind = kind}

\* What a key holds after the write of request w was the last to take effect
\* (w = 0: no write yet, on a store that started empty).
HeldAfter(w) ==
    IF w = 0 \/ mreqs[w].kind = "delete" THEN NoEntry
    ELSE [present |-> TRUE, value |-> JSONstringify(mreqs[w].body)]

\* C18: a key holds nothing or the one value of the put whose write was the
\* last to take effect on it; and a get answers with the value of the put
\* whose write was the latest when the get's SELECT ran (404 when that
\* latest write was a remove, or there was none).
C18_LastWriterWins ==
    /\ \A key \in MapKeys : maps[key] = HeldAfter(LastOf(mlog[key]))
    /\ \A g \in MapReqs("get") :
           LET r == mreqs[g] IN
           Answered(r) =>
               /\ Len(r.sent) = 1 /\ r.ran
               /\ Answer(r) = IF HeldAfter(r.last).present
                               THEN Response(200, "value", <<mreqs[r.last].body>>, 0)
                               ELSE ResKeyNotFound

\* Two overlapping puts of different values to one key, and a get answered
\* with the value of the one whose write came second.
C18_Witness ==
    \E i, k \in MapReqs("post"), g \in MapReqs("get") :
        /\ mreqs[i].name = mreqs[k].name /\ mreqs[g].name = mreqs[i].name
        /\ mreqs[i].body # mreqs[k].body
        /\ i \in mreqs[k].conc
        /\ mlog[mreqs[i].name] = <<k, i>>
        /\ mreqs[g].last = i
        /\ Answered(mreqs[g]) /\ Answer(mreqs[g]).items = <<mreqs[i].body>>

\* ----------------------------------------------------------------- C19
\* Statement c of a map request takes effect in this step.
MapTakesEffect(c) ==
    /\ c \in mdb.run /\ ~c.done
    /\ \E d \in mdb'.run : d.rid = c.rid /\ d.stmt = c.stmt /\ d.done

\* C19: a get whose SELECT finds no row is answered 404, also when the
\* latest write on the key was a remove, and its SELECT changes nothing; a
\* remove is answered 200, once, whether or not the key was there, and when
\* its DELETE takes effect the key is absent and the other keys are as they
\* were.
C19_AbsentKey ==
    /\ [](/\ \A g \in MapReqs("get") :
                LET r == mreqs[g] IN
                /\ r.ran => r.after = r.before
                /\ (Answered(r) /\ ~r.before.present) => Answer(r) = ResKeyNotFound
                /\ (Answered(r) /\ r.last # 0 /\ mreqs[r.last].kind = "delete") =>
                       Answer(r) = ResKeyNotFound
          /\ \A d \in MapReqs("delete") :
                LET r == mreqs[d] IN
                /\ Answered(r) => (Answer(r) = ResEnd(200) /\ Len(r.sent) = 1 /\ r.ran)
                /\ r.ran => r.after = NoEntry)
    /\ [][\A c \in mdb.run :
            MapTakesEffect(c) =>
                LET key == mreqs[c.rid].name IN
                /\ c.stmt = "GET" => maps' = maps
                /\ c.stmt = "DEL" =>
                       /\ maps'[key] = NoEntry
                       /\ \A other \in MapKeys \ {key} : maps'[other] = maps[other]]_vars

\* A remove of a stored key and a remove of an absent key were both answered
\* 200, and a get after the first remove was answered 404 and left the key
\* absent.
C19_Witness ==
    \E d \in MapReqs("delete"), e \in MapReqs("delete"), g \in MapReqs("get") :
        /\ mreqs[d].before.present /\ Answered(mreqs[d]) /\ Answer(mreqs[d]) = ResEnd(200)
        /\ mreqs[e].ran /\ ~mreqs[e].before.present
        /\ Answered(mreqs[e]) /\ Answer(mreqs[e]) = ResEnd(200)
        /\ mreqs[g].last = d /\ Answered(mreqs[g]) /\ Answer(mreqs[g]) = ResKeyNotFound
        /\ ~maps[mreqs[g].name].present

\* ----------------------------------------------------------------- C20
\* The rows an INSERT added: those of `after` beyond the length of `before`.
Added(before, after) == SubSeq(after, Len(before) + 1, Len(after))

\* C20 as claimed: every row an enqueue appends gets a position above every
\* position assigned in the queue since it was created.
C20_PositionsNeverReused ==
    [][\A c \in qdb.run :
          (TakesEffect(c) /\ c.stmt = "INSERT") =>
              LET name == reqs[c.rid].name
                  new == Added(tables[name].rows, tables'[name].rows)
              IN
              \A k \in 1..Len(new) : new[k].position > hist.top[name]]_vars

\* C20 amended: the rows an enqueue appends get consecutive positions, in
\* order, starting one above the highest position now in the queue, and at 1
\* when the queue is empty: above every row in the queue, and above every
\* position ever assigned as long as the queue's highest row is the highest
\* ever assigned.  The rows of a queue are in strictly increasing position.
C20_PositionsAboveQueued ==
    /\ [](\A name \in Names :
            LET rows == tables[name].rows IN
            \A k \in 1..Len(rows) :
                /\ rows[k].position >= 1 /\ rows[k].position <= hist.top[name]
                /\ k > 1 => rows[k - 1].position < rows[k].position)
    /\ [][\A c \in qdb.run :
            (TakesEffect(c) /\ c.stmt = "INSERT" /\ tables[reqs[c.rid].name].exists) =>
                LET name == reqs[c.rid].name
                    old == tables[name].rows
                    new == Added(old, tables'[name].rows)
                    base == IF old = <<>> THEN 0 ELSE old[Len(old)].position
                IN
                /\ Len(new) = Len(reqs[c.rid].body)
                /\ \A k \in 1..Len(new) :
                       /\ new[k].position = base + k
                       /\ \A j \in 1..Len(old) : old[j].position < new[k].position
                       /\ base = hist.top[name] => new[k].position > hist.top[name]]_vars

\* Dequeues emptied a queue and the next enqueue got position 1 again; in
\* the same run an enqueue on a queue that still had rows got the position
\* above the highest ever assigned.
C20_Witness ==
    \E name \in Names :
        LET rows == tables[name].rows
            ins == hist.ins[name]
        IN
        /\ rows # <<>> /\ rows[1].position = 1
        /\ Len(ins) > Len(rows) /\ rows[1].id # ins[1]
        /\ \E i \in QueueReqs("post") : Inserted(i) /\ reqs[i].seen.depth > 0

CounterSettled(i) ==
    /\ creqs[i].issued # <<>>
    /\ \A c \in cdb.run : c.rid # i
    /\ \A k \in 1..Len(cdb.queue) : cdb.queue[k].rid # i

\* C22 as stated, for incrementAndGet: the four statements are issued once
\* (no retry), and when the store failed one of them the request is answered
\* with the storage error and, once the request is through and no transaction
\* is open, its write is not in the store: if no later write touched the
\* counter, the counter has the row it had before the request.
C22_AllOrNothing ==
    \A i \in CounterReqs("get") :
        /\ creqs[i].issued = <<"BEGIN", "INCR", "READ", "COMMIT">>
        /\ (creqs[i].faulted # {} /\ CounterSettled(i)) =>
               /\ Answered(creqs[i]) /\ Answer(creqs[i]) = ResError
               /\ (creqs[i].ran /\ ~cTxn /\ LastOf(clog[creqs[i].name]) = i) =>
                      counters[creqs[i].name] = creqs[i].before

\* ----------------------------------------------------------------- C23
\* All statements of queue request i have run and their callbacks returned.
QueueSettled(i) ==
    /\ reqs[i].checked.done
    /\ \A c \in qdb.run : c.rid # i
    /\ \A k \in 1..Len(qdb.queue) : qdb.queue[k].rid # i

\* C23 as stated: a counter increment, an enqueue or a dequeue sends at most
\* one response, and when one of its statements failed, what it has sent once
\* it is through is exactly one error response.
C23_FailureNeverSwallowed ==
    /\ \A i \in QueueReqs("get") \cup QueueReqs("post") :
           /\ Len(reqs[i].sent) <= 1
           /\ (reqs[i].failed # {} /\ QueueSettled(i)) => reqs[i].sent = <<ResError>>
    /\ \A i \in CounterReqs("get") :
           /\ Len(creqs[i].sent) <= 1
           /\ (creqs[i].faulted # {} /\ CounterSettled(i)) => creqs[i].sent = <<ResError>>

\* ----------------------------------------------------------------- C24
\* C24 as stated: in the step in which an increment or a dequeue sends its
\* first response, its connection is left with no open transaction; and no
\* statement of another operation (any statement that is not one of the four
\* of a transaction) takes effect while a transaction is open.
C24_NoTransactionAcrossOperations ==
    [][ /\ \A i \in 1..Len(creqs) :
              (creqs[i].kind = "get" /\ ~Answered(creqs[i]) /\ Answered(creqs'[i])) => ~cTxn'
        /\ \A c \in cdb.run :
              (CounterTakesEffect(c) /\ c.stmt \notin {"BEGIN", "INCR", "READ", "COMMIT"}) => ~cTxn
        /\ \A i \in 1..Len(reqs) :
              (reqs[i].kind = "get" /\ ~Answered(reqs[i]) /\ Answered(reqs'[i])) => ~inTxn'
        /\ \A c \in qdb.run :
              (TakesEffect(c) /\ c.stmt \notin {"BEGIN", "SELECT", "DELETE", "COMMIT"}) => ~inTxn
      ]_vars

\* ----------------------------------------------------------------- C25
\* The requests of all families, and the request a step receives.
Rejected(r) == r.sent # <<>> /\ r.sent[1] = ResInvalid

NewRequest(rs, rs2) == IF Len(rs2) = Len(rs) + 1 THEN <<rs2[Len(rs2)]>> ELSE <<>>

Arrived == NewRequest(reqs, reqs') \o NewRequest(creqs, creqs') \o NewRequest(mreqs, mreqs')

\* C25: a counter initialize with a value below 1, an enqueue with an empty
\* or non-array body, a dequeue with a limit below 1 and any request with a
\* non-alphanumeric name are answered 400; a request answered 400 has issued
\* no statement and sends nothing else; and the step that rejects it changes
\* no connection, no queue, no counter and no map entry -- a rejected enqueue
\* leaves a missing queue missing.
C25_ValidationPrecedesStorage ==
    /\ [](/\ \A i \in 1..Len(reqs) :
                /\ ( \/ ~IsAlphanumeric(reqs[i].name)
                     \/ (reqs[i].kind = "post" /\ reqs[i].body = <<>>)
                     \/ (reqs[i].kind = "get" /\ reqs[i].limit < 0) ) => Rejected(reqs[i])
                /\ Rejected(reqs[i]) => reqs[i].issued = <<>> /\ Len(reqs[i].sent) = 1
          /\ \A i \in 1..Len(creqs) :
                /\ ( \/ ~IsAlphanumeric(creqs[i].name)
                     \/ (creqs[i].kind = "post" /\ creqs[i].value < 1) ) => Rejected(creqs[i])
                /\ Rejected(creqs[i]) => creqs[i].issued = <<>> /\ Len(creqs[i].sent) = 1
          /\ \A i \in 1..Len(mreqs) :
                /\ ~IsAlphanumeric(mreqs[i].name) => Rejected(mreqs[i])
                /\ Rejected(mreqs[i]) => mreqs[i].issued = <<>> /\ Len(mreqs[i].sent) = 1)
    /\ [][(Arrived # <<>> /\ Rejected(Arrived[1])) =>
            /\ tables' = tables /\ inTxn' = inTxn /\ qdb' = qdb
            /\ counters' = counters /\ cTxn' = cTxn /\ cdb' = cdb
            /\ maps' = maps /\ mdb' = mdb]_vars

\* An enqueue with an empty or non-array body to a queue that does not exist
\* was rejected, a depth request received after it found no such queue, and
\* a counter initialize with the value 0 was rejected and left no counter.
C25_Witness ==
    /\ Len(reqs) = 2 /\ Len(creqs) = 1
    /\ reqs[1].kind = "post" /\ reqs[1].name \in Names /\ Rejected(reqs[1])
    /\ reqs[2].kind = "depth" /\ reqs[2].name = reqs[1].name
    /\ Answered(reqs[2]) /\ Answer(reqs[2]) = ResNotFound
    /\ creqs[1].kind = "post" /\ creqs[1].value = 0 /\ IsAlphanumeric(creqs[1].name)
    /\ Rejected(creqs[1]) /\ ~counters[creqs[1].name].present

\* ----------------------------------------------------------------- C26
\* Position of a name in the collation order.
NameRank(name) == CHOOSE k \in 1..Len(QueueNameOrder) : QueueNameOrder[k] = name

\* C26: a list request is answered 200 with the names of exactly the tables
\* that existed when its query ran, each once, in ascending order; a table
\* stops existing only when a DROP TABLE takes effect (never by a dequeue
\* that empties it) and starts existing only when a CREATE TABLE takes
\* effect, so that it exists when the INSERT of its first enqueue has succeeded.
C26_ListIsExisting ==
    /\ [](\A i \in QueueReqs("list") :
             Answered(reqs[i]) =>
                 LET names == Answer(reqs[i]).items IN
                 /\ Answer(reqs[i]).status = 200 /\ Answer(reqs[i]).kind = "names"
                 /\ Range(names) = reqs[i].existing
                 /\ \A k \in 1..(Len(names) - 1) : NameRank(names[k]) < NameRank(names[k + 1]))
    /\ [](\A i \in QueueReqs("post") :
             (Answered(reqs[i]) /\ Answer(reqs[i]) = ResEnd(201)) => Inserted(i))
    /\ [][\A name \in DOMAIN tables :
            /\ (tables[name].exists /\ ~tables'[name].exists) =>
                   \E c \in qdb.run : TakesEffect(c) /\ c.stmt = "DROP" /\ reqs[c.rid].name = name
            /\ (~tables[name].exists /\ tables'[name].exists) =>
                   \E c \in qdb.run : TakesEffect(c) /\ c.stmt = "CREATE" /\ reqs[c.rid].name = name
          ]_vars

\* An enqueue created queue q, a dequeue emptied it, and a list request whose
\* query ran after that was answered with the other stored queue and q.
C26_Witness ==
    \E i \in QueueReqs("post"), j \in QueueReqs("get"), k \in QueueReqs("list") :
        /\ Inserted(i) /\ reqs[j].name = reqs[i].name
        /\ reqs[j].deleted # <<>> /\ reqs[j].left = 0
        /\ tables[reqs[i].name].exists /\ tables[reqs[i].name].rows = <<>>
        /\ Answered(reqs[k]) /\ Answer(reqs[k]).items = <<"p", reqs[i].name>>
        /\ reqs[i].name \in reqs[k].existing

\* ----------------------------------------------------------------- C27
PersonAnswers == {i \in 1..Len(preqs) : Answered(preqs[i]) /\ Answer(preqs[i]).kind = "person"}

\* The personCount in an email: the number its base-32 digits stand for.
RECURSIVE FromDigits(_)
FromDigits(ds) == IF ds = <<>> THEN 0 ELSE 32 * FromDigits(SubSeq(ds, 1, Len(ds) - 1)) + ds[Len(ds)]

\* C27: no two person responses carry the same email, and the personCount
\* values in their emails are distinct.
C27_EmailUnique ==
    \A i, j \in PersonAnswers :
        i # j => /\ Answer(preqs[i]).items # Answer(preqs[j]).items
                 /\ FromDigits(Answer(preqs[i]).items[3]) # FromDigits(Answer(preqs[j]).items[3])

\* Three person requests were received while the first was still running,
\* all were answered with an email, two of them for the same names, and one
\* count has two base-32 digits.
C27_Witness ==
    /\ Len(preqs) = 3
    /\ PersonAnswers = 1..3
    /\ preqs[1].firstName = preqs[2].firstName
    /\ Len(preqs[3].issued) = 4
    /\ \E i \in PersonAnswers : Len(Answer(preqs[i]).items[3]) = 2

\* ----------------------------------------------------------------- C28
\* Statement stmt of request i is issued and has not run yet.
Pending(i, stmt) ==
    \E c \in Range(qdb.queue) \cup {d \in qdb.run : ~d.done} : c.rid = i /\ c.stmt = stmt

\* Dequeue i is between its SELECT, which found the queue, and its DELETE.
BetweenSelectAndDelete(i) ==
    /\ reqs[i].kind = "get"
    /\ reqs[i].seen.at = "SELECT" /\ reqs[i].seen.exists
    /\ Pending(i, "DELETE")

\* C28: while a dequeue is between its SELECT and its DELETE, no statement
\* of another request takes effect and the queue's rows do not change; the
\* rows its DELETE removes are, in order, the rows whose payloads it returns.
C28_SelectDeleteAtomic ==
    /\ [][\A i \in 1..Len(reqs) :
            BetweenSelectAndDelete(i) =>
                /\ \A c \in qdb.run : TakesEffect(c) => c.rid = i
                /\ \/ tables' = tables
                   \/ \E c \in qdb.run : TakesEffect(c) /\ c.rid = i /\ c.stmt = "DELETE"
          ]_vars
    /\ [](\A i \in QueueReqs("get") :
             /\ (reqs[i].seen.at = "SELECT" /\ reqs[i].seen.exists /\ ~Pending(i, "DELETE")) =>
                    /\ "DELETE" \notin reqs[i].failed
                    /\ reqs[i].deleted =
                           SubSeq(reqs[i].seen.ids, 1, Len(reqs[i].deleted))
                    /\ reqs[i].itemsDef =>
                           reqs[i].deleted = [k \in 1..Len(reqs[i].items) |-> reqs[i].items[k].id]
             /\ (Answered(reqs[i]) /\ Answer(reqs[i]).kind = "items") =>
                    reqs[i].deleted = [k \in 1..Len(Items(i)) |-> Items(i)[k].id])

\* Two dequeues were in flight together: both found the queue holding an
\* item at their existence check, one returned and removed it, and the
\* other's SELECT, which ran after that DELETE, found the queue empty.
C28_Witness ==
    \E i, j \in QueueReqs("get") :
        /\ i # j /\ reqs[i].name = reqs[j].name
        /\ reqs[i].checked.depth > 0 /\ reqs[j].checked.depth > 0
        /\ Answered(reqs[i]) /\ Items(i) # <<>>
        /\ reqs[i].deleted = [k \in 1..Len(Items(i)) |-> Items(i)[k].id]
        /\ reqs[i].left = 0
        /\ reqs[j].seen.at = "SELECT" /\ reqs[j].seen.exists /\ reqs[j].seen.depth = 0

\* ----------------------------------------------------------------- C29
\* Statement stmt of counter request i is issued and has not run yet.
CounterPending(i, stmt) ==
    \E c \in Range(cdb.queue) \cup {d \in cdb.run : ~d.done} : c.rid = i /\ c.stmt = stmt

\* While an increment is between its INSERT OR REPLACE and its SELECT, no
\* statement of another request takes effect and no counter changes.
C29_NoWriteBetween ==
    [][\A i \in 1..Len(creqs) :
          (creqs[i].kind = "get" /\ creqs[i].ran /\ CounterPending(i, "READ")) =>
              /\ counters' = counters
              /\ \A c \in cdb.run :
                     (~c.done /\ \E d \in cdb'.run : d.rid = c.rid /\ d.stmt = c.stmt /\ d.done)
                        => c.rid = i
      ]_vars

\* C29: an increment answered with a value is answered with the value its
\* own INSERT OR REPLACE wrote, which is the prior value + 1, or 1 for an
\* absent counter; and nothing else takes effect between its write and its
\* read-back.
C29_ReturnsWritten ==
    /\ C29_NoWriteBetween
    /\ [](\A i \in 1..Len(creqs) :
             (creqs[i].kind = "get" /\ Answered(creqs[i]) /\ Answer(creqs[i]).kind = "int") =>
                 /\ creqs[i].ran
                 /\ creqs[i].after.value =
                        (IF creqs[i].before.present THEN creqs[i].before.value + 1 ELSE 1)
                 /\ Answer(creqs[i]).n = creqs[i].after.value)

\* ----------------------------------------------------------------- C30
\* The enqueues to queue name whose existence check found no queue.
Racing(name) ==
    {i \in QueueReqs("post") :
        reqs[i].name = name /\ reqs[i].checked.done /\ ~reqs[i].checked.exists}

\* No dequeue and no clear of queue name has been received.
OnlyAdded(name) ==
    \A i \in 1..Len(reqs) : reqs[i].name = name => reqs[i].kind \notin {"get", "delete"}

\* C30: when nothing removes from the queue, every enqueue whose check found
\* no queue is answered 201 once answered, holds its items in the queue from
\* its INSERT on, and once all of them are answered the queue holds exactly
\* their items, each once, so that its depth is the sum of the batch lengths.
C30_LazyCreationRaceFree ==
    \A name \in Names :
        (OnlyAdded(name) /\ Racing(name) # {}) =>
            /\ \A i \in Racing(name) :
                   /\ Answered(reqs[i]) => (Answer(reqs[i]) = ResEnd(201) /\ Inserted(i))
                   /\ Inserted(i) => ItemsOf(i) \subseteq Range(Ids(tables[name].rows))
            /\ (\A i \in QueueReqs("post") : reqs[i].name = name => Answered(reqs[i])) =>
                   /\ tables[name].exists
                   /\ Range(Ids(tables[name].rows)) =
                          UNION {ItemsOf(i) : i \in {j \in QueueReqs("post") : reqs[j].name = name}}
                   /\ Len(tables[name].rows) =
                          Cardinality(UNION {ItemsOf(i) : i \in {j \in QueueReqs("post") :
                                                                    reqs[j].name = name}})

\* Two enqueues with batches of different length both found no queue, both
\* were answered 201, and the queue holds the items of both.
C30_Witness ==
    \E name \in Names : \E i, j \in Racing(name) :
        /\ i # j /\ OnlyAdded(name)
        /\ Len(reqs[i].body) # Len(reqs[j].body)
        /\ Answered(reqs[i]) /\ Answer(reqs[i]) = ResEnd(201)
        /\ Answered(reqs[j]) /\ Answer(reqs[j]) = ResEnd(201)
        /\ "CREATE" \in Range(reqs[i].issued) /\ "CREATE" \in Range(reqs[j].issued)
        /\ Len(tables[name].rows) = Len(reqs[i].body) + Len(reqs[j].body)

\* ----------------------------------------------------------------- C31
\* Position of request i in the sequence of requests `order`, 0 if absent.
OrderIndex(order, i) ==
    IF i \in Range(order) THEN CHOOSE k \in 1..Len(order) : order[k] = i ELSE 0

\* Item x was removed by a dequeue before item y was: by a dequeue whose
\* DELETE ran earlier, or by the same dequeue at a lower position.
TakenBefore(name, x, y) ==
    \E dx \in Takers(x), dy \in Takers(y) :
        \/ /\ dx # dy
           /\ OrderIndex(hist.order[name], dx) < OrderIndex(hist.order[name], dy)
        \/ /\ dx = dy
           /\ OrderIndex(reqs[dx].deleted, x) < OrderIndex(reqs[dx].deleted, y)
           /\ Answered(reqs[dx]) =>
                  /\ {x, y} \subseteq ItemIds(dx)
                  /\ OrderIndex(Ids(Items(dx)), x) < OrderIndex(Ids(Items(dx)), y)

\* Enqueue a had its 201 before enqueue b arrived, b's INSERT has run, and no
\* clear has taken effect since a's INSERT.
EnqueuedInTurn(a, b) ==
    /\ reqs[b].kind = "post" /\ a \in reqs[b].earlier /\ Inserted(b)
    /\ ItemsOf(a) \cup ItemsOf(b) \subseteq Range(hist.ins[reqs[b].name])

\* C31: when enqueue a had its 201 before enqueue b on the same queue
\* arrived and no clear came between, an item of b that is removed by a
\* dequeue is removed after every item of a, and while items of both are
\* queued those of a are at lower positions.
C31_EnqueueOrderPreserved ==
    \A b \in 1..Len(reqs) : \A a \in reqs[b].earlier :
        EnqueuedInTurn(a, b) =>
            \A x \in ItemsOf(a), y \in ItemsOf(b) :
                LET queued == Ids(tables[reqs[b].name].rows) IN
                /\ Takers(y) # {} => (Takers(x) # {} /\ TakenBefore(reqs[b].name, x, y))
                /\ y \in Range(queued) =>
                       \/ x \in Range(queued) /\ OrderIndex(queued, x) < OrderIndex(queued, y)
                       \/ Takers(x) # {}
                /\ (Takers(y) # {} /\ \A d \in Takers(y) : Answered(reqs[d])) =>
                       \A d \in Takers(x) : Answered(reqs[d])

\* Enqueue a was answered before enqueue b arrived, and two dequeues, the
\* second received before the first was answered, returned an item of a and
\* then an item of b.
C31_Witness ==
    \E b \in QueueReqs("post") : \E a \in reqs[b].earlier :
        /\ EnqueuedInTurn(a, b)
        /\ \E x \in ItemsOf(a), y \in ItemsOf(b) : \E dx \in Takers(x), dy \in Takers(y) :
               /\ dx # dy
               /\ Answered(reqs[dx]) /\ Answered(reqs[dy])
               /\ x \in ItemIds(dx) /\ y \in ItemIds(dy)

\* ----------------------------------------------------------------- C32
\* What dbTableExists(name) resolves when it runs now, and the rows a
\* request on queue `name` then works on.
Existing(name) == tables[Fold(name)].exists /\ tables[Fold(name)].name = name

Contents(name) == IF Existing(name) THEN tables[Fold(name)].rows ELSE <<>>

\* C32 (queues): a statement of a request on queue A leaves existence and
\* contents of every queue with another name unchanged, also of a name that
\* differs from A in letter case only; and when the INSERT of an enqueue
\* whose check found no queue A succeeds, the queue named exactly A exists
\* and holds the enqueue's items.
C32_IsolatedByExactName ==
    /\ [][\A c \in qdb.run :
            TakesEffect(c) =>
                \A other \in (Names \cup CaseNames) \ {reqs[c.rid].name} :
                    /\ Existing(other)' = Existing(other)
                    /\ Contents(other)' = Contents(other)
          ]_vars
    /\ [][\A c \in qdb.run :
            LET r == reqs[c.rid] IN
            (TakesEffect(c) /\ c.stmt = "INSERT" /\ ~r.checked.exists
                /\ \E d \in qdb'.run : d.rid = c.rid /\ d.stmt = c.stmt /\ d.ok) =>
                /\ Existing(r.name)'
                /\ ItemsOf(c.rid) \subseteq Range(Ids(Contents(r.name)'))
          ]_vars

\* ----------------------------------------------------------------- C33
\* C33: an export whose SELECT ran against an existing queue answers 200
\* with the payloads of all rows the queue held at that moment, as they were
\* sent, in ascending position; no step of an export changes a queue; and
\* an export whose check finds no queue answers 404 and issues nothing more.
C33_ExportReadsAll ==
    /\ [](\A i \in QueueReqs("export") :
             /\ (Answered(reqs[i]) /\ reqs[i].seen.at = "EXPORT" /\ reqs[i].seen.exists) =>
                    /\ Answer(reqs[i]).status = 200 /\ Answer(reqs[i]).kind = "items"
                    /\ Ids(Items(i)) = reqs[i].seen.ids
                    /\ Len(Items(i)) = reqs[i].seen.depth
                    /\ \A k \in 1..Len(Items(i)) : Items(i)[k].v = SentValue(Items(i)[k].id)
             /\ (reqs[i].checked.done /\ ~reqs[i].checked.exists) =>
                    /\ reqs[i].issued = <<"EXISTS">>
                    /\ Answered(reqs[i]) => Answer(reqs[i]) = ResNotFound)
    /\ [](\A name \in Names :
             LET rows == tables[name].rows IN
             \A k \in 1..(Len(rows) - 1) : rows[k].position < rows[k + 1].position)
    /\ [][\A i \in QueueReqs("export") :
            (reqs'[i] # reqs[i]
                /\ \A j \in 1..Len(reqs) : j # i => reqs'[j] = reqs[j]) =>
                (tables' = tables /\ hist' = hist /\ inTxn' = inTxn)
          ]_vars

\* An export answered both items of a queue, the queue still held both
\* afterwards, and a dequeue after it returned the first of them.
C33_Witness ==
    \E i \in QueueReqs("export"), j \in QueueReqs("get") :
        /\ Answered(reqs[i]) /\ Len(Items(i)) = 2
        /\ reqs[j].seen.at = "SELECT" /\ reqs[j].seen.ids = Ids(Items(i))
        /\ Answered(reqs[j]) /\ Items(j) = <<Items(i)[1]>>
        /\ reqs[j].left = 1

Checks(i) == \E c \in qdb.run : TakesEffect(c) /\ c.rid = i /\ c.stmt = "EXISTS"

\* The existence check of a request reads the store as the connection has
\* it at that moment, which inside an open transaction includes what the
\* transaction has not committed.
C35_CheckReadsConnection ==
    [][\A i \in 1..Len(reqs) :
          Checks(i) => (reqs'[i].checked.exists <=> reqs[i].name \in TableNames(tables))]_vars

\* C35: dbTableExists(name) resolves true exactly when the last committed
\* state of the store holds queue `name`.
C35_CheckIsCommittedState ==
    [][\A i \in 1..Len(reqs) :
          Checks(i) => (reqs'[i].checked.exists <=> reqs[i].name \in hist.committed)]_vars

====
